---- MODULE Spec2Model ----
(***************************************************************************)
(* The live sales-coach session hook (useSalesCoach): the session state    *)
(* machine, the segment merger, the per-fragment annotation calls, the     *)
(* speaker-correction pass and the persistence hand-off.                   *)
(*                                                                         *)
(* Time is counted in ticks; one second is TicksPerSecond ticks, chosen so *)
(* that dividing a whole-second span by any part count up to MaxParts is   *)
(* exact (the source divides floating-point seconds).                      *)
(***************************************************************************)
EXTENDS Integers, Sequences, FiniteSets, TLC

\* ------------------------------------------------------------------ bounds
MaxEvents == 2
MaxTime == 2
MaxParts == 2
MaxStarts == 1
MaxStops == 1
MaxChunks == 1
MaxSplits == 2
MaxSegs == 3
MaxSessions == 2
MaxSignals == 2
MaxRaceEvents == 1
MaxUploads == 2
MaxFileChunks == 2
MaxFileEvents == 2
MaxClock == 3
MaxFeedEvents == 6
MaxInFlight == 1
MaxMetricSegs == 3
MaxSegSeconds == 2
ScenarioSegs == 10
ScenarioSeconds == 5
MaxGridWords == 8
MaxGridSeconds == 6
MaxKeywordSegs == 3

\* ------------------------------------------------------- program constants
ToleranceSeconds == 2
MinAnnotateLen == 5
MinTranscriptLen == 50
MaxFeedback == 5

RECURSIVE Factorial(_)
Factorial(n) == IF n <= 1 THEN 1 ELSE n * Factorial(n - 1)

RECURSIVE Power(_, _)
Power(b, e) == IF e = 0 THEN 1 ELSE b * Power(b, e - 1)

\* A span of whole seconds stays divisible through MaxSplits nested divisions
\* by at most MaxParts.
TicksPerSecond == Power(Factorial(MaxParts), MaxSplits)
Tolerance == ToleranceSeconds * TicksPerSecond

Abs(x) == IF x < 0 THEN -x ELSE x
Min(a, b) == IF a < b THEN a ELSE b

\* ------------------------------------------------------------ value spaces
Undefined == "undefined"
Null == "null"

IDLE == "IDLE"
RECORDING == "RECORDING"
TRANSCRIBING == "TRANSCRIBING"
ANALYZING == "ANALYZING"
DONE == "DONE"
RecordingState == {IDLE, RECORDING, TRANSCRIBING, ANALYZING, DONE}

SpeakerIds == {"Guest-1", "Guest-2"}
Roles == {"Salesperson", "Customer"}

\* The utterances the transcriber may recognise and the correction response
\* may contain; StrLen gives the length String.length would return.
ShortText == "Hi."
MixedText == "Can I show you our product? What product?"
QuestionText == "What product?"
OfferText == "Can I show you our product?"
\* Utterances for the keyword extraction: a one-letter token and a number,
\* a word that names a property every object inherits, and 31 different
\* words said twice, the last of them three times
KeywordText == "Plan B costs 24, plan b costs 24."
ProtoText == "Our constructor asked for the constructor plan."
LongText ==
    "Price price plan plan team team demo demo trial trial budget budget contract contract support support feature feature license license renewal renewal discount discount invoice invoice account account manager manager training training security security platform platform report report dashboard dashboard integration integration customer customer service service upgrade upgrade storage storage backup backup mobile mobile email email calendar calendar workflow workflow analytics analytics analytics."
\* The utterances a session hears: who says what
Utterances ==
    { [speakerId |-> "Guest-1", text |-> MixedText],
      [speakerId |-> "Guest-2", text |-> ShortText] }

StrLen(s) ==
    CASE s = ShortText -> 3
      [] s = MixedText -> 41
      [] s = QuestionText -> 13
      [] s = OfferText -> 27
      [] s = KeywordText -> 33
      [] s = ProtoText -> 47
      [] s = LongText -> 500
      [] s = "Guest-1" -> 7
      [] s = "Guest-2" -> 7
      [] s = "Guest-3" -> 7
      [] s = "Customer" -> 8
      [] s = "Salesperson" -> 11
      [] OTHER -> 0

\* text.toLowerCase().includes('can i') || ... of the fallback heuristic
HasSalesCue(s) == s \in {MixedText, OfferText}

\* What a successfully parsed annotation response may carry.
AnnotationOutcomes ==
    { [emotion |-> "joy", sentiment |-> "positive", feedback |-> "Ask an open question"],
      [emotion |-> "anger", sentiment |-> "negative", feedback |-> ""] }

\* ------------------------------------------------------------------- state
VARIABLES
    recordingState,        \* useState<RecordingState>
    transcript,            \* useState<string>: the display lines
    realtimeFeedback,      \* useState<string[]>
    error,                 \* useState<string | null>
    sdk,                   \* the SDK script: "loading", "ready" or "failed"
    azureTranscriberRef,   \* the transcriber the ref holds, by its state
    geminiModelRef,        \* TRUE when the ref holds a model
    mediaRecorderRef,      \* "null", "recording" or "inactive"
    audioChunksRef,        \* number of chunks held
    isManuallyStopping,
    geminiSegmentsRef,
    azureSegmentsRef,
    combinedTranscriptRef,
    clock,                 \* (Date.now() - recordingStartTimeRef) in ticks
    pending,               \* annotate calls awaiting generateContent
    tasks,                 \* suspended async functions (start and stop pipelines)
    currentUser,           \* auth.currentUser is set
    storedAudio,           \* blobs held by the storage bucket
    recordings,            \* documents of the "recordings" collection
    starts,                \* calls of startRecording so far
    stops,                 \* calls of stopRecording so far
    events,                \* utterances recognised so far
    uploadProgress,        \* file hook: useState<number>
    currentFile,           \* file hook: useState<File | null>
    transcriptSegmentsRef, \* file hook: the enriched segments
    speakerNamesRef        \* file hook: raw speaker ids in order of first use

vars == <<recordingState, transcript, realtimeFeedback, error, sdk,
          azureTranscriberRef, geminiModelRef, mediaRecorderRef, audioChunksRef,
          isManuallyStopping, geminiSegmentsRef, azureSegmentsRef,
          combinedTranscriptRef, clock, pending, tasks, currentUser,
          storedAudio, recordings, starts, stops, events,
          uploadProgress, currentFile, transcriptSegmentsRef, speakerNamesRef>>

\* ---------------------------------------------------------------- helpers
RemoveAt(s, i) == [j \in 1..(Len(s) - 1) |-> IF j < i THEN s[j] ELSE s[j + 1]]

RECURSIVE SumSeq(_)
SumSeq(s) == IF Len(s) = 0 THEN 0 ELSE Head(s) + SumSeq(Tail(s))

\* Array.prototype.find over the indices that pass its test: the first of
\* them, 0 if there is none
FirstIndex(hits) ==
    IF hits = {} THEN 0 ELSE CHOOSE j \in hits : \A k \in hits : j <= k

\* ------------------------------------------------------------ mergeSegments
\* geminiSegmentsRef.current.find(g => Math.abs(g.timestamp - start) < 2),
\* as an index into the buffer
MatchingGemini(gemini, azureSegment) ==
    FirstIndex({ j \in 1..Len(gemini) :
                    Abs(gemini[j].timestamp - azureSegment.start) < Tolerance })

\* A merger that holds the transcript back until every segment has its
\* annotation (a faulty variant, used to show C3 is sensitive to the merger).
MergeSegmentsMutDropUnmatched(azure, gemini) ==
    LET matched == { i \in 1..Len(azure) : MatchingGemini(gemini, azure[i]) # 0 }
    IN  IF matched = 1..Len(azure)
        THEN [i \in 1..Len(azure) |->
                [speaker |-> azure[i].speakerId, text |-> azure[i].text,
                 emotion |-> gemini[MatchingGemini(gemini, azure[i])].emotion,
                 sentiment |-> gemini[MatchingGemini(gemini, azure[i])].sentiment,
                 start |-> azure[i].start, end |-> azure[i].end]]
        ELSE <<>>

MergeSegments(azure, gemini) ==
    [i \in 1..Len(azure) |->
        LET m == MatchingGemini(gemini, azure[i])
        IN  [speaker |-> azure[i].speakerId,
             text |-> azure[i].text,
             emotion |-> IF m = 0 THEN Undefined ELSE gemini[m].emotion,
             sentiment |-> IF m = 0 THEN Undefined ELSE gemini[m].sentiment,
             start |-> azure[i].start,
             end |-> azure[i].end]]

\* The display text, one line per segment: "[speaker] text (emotion)"
DisplayText(combined) ==
    [i \in 1..Len(combined) |->
        [speaker |-> combined[i].speaker, text |-> combined[i].text,
         emotion |-> combined[i].emotion]]

\* ------------------------------------------------ correctSpeakerIdentification
\* A response of the correction call, once parsed:
\*   [corrections |-> <<[index, correctedSpeaker]>>,
\*    splits |-> <<[originalIndex, segments |-> <<[speaker, text]>>]>>]
\* Indices are the source's 0-based array indices.
NoResponse == [corrections |-> <<>>, splits |-> <<>>]

\* Array.prototype.sort((a, b) => b.originalIndex - a.originalIndex): stable
RECURSIVE InsertDesc(_, _)
InsertDesc(sorted, x) ==
    IF Len(sorted) = 0 THEN <<x>>
    ELSE IF Head(sorted).originalIndex >= x.originalIndex
         THEN <<Head(sorted)>> \o InsertDesc(Tail(sorted), x)
         ELSE <<x>> \o sorted

RECURSIVE SortDesc(_)
SortDesc(splits) ==
    IF Len(splits) = 0 THEN <<>>
    ELSE InsertDesc(SortDesc(SubSeq(splits, 1, Len(splits) - 1)), splits[Len(splits)])

\* The parts with the span divided by one too many (a faulty variant, used
\* for C5)
NewSegmentsMutOffByOne(originalSeg, parts) ==
    LET duration == originalSeg.end - originalSeg.start
        timePerSegment == duration \div (Len(parts) + 1)
    IN  [i \in 1..Len(parts) |->
            [speaker |-> parts[i].speaker,
             text |-> parts[i].text,
             emotion |-> originalSeg.emotion,
             sentiment |-> originalSeg.sentiment,
             start |-> originalSeg.start + ((i - 1) * timePerSegment),
             end |-> originalSeg.start + (i * timePerSegment)]]

\* The parts laid over the span from its end backwards (a faulty variant,
\* used for C33)
NewSegmentsMutReversed(originalSeg, parts) ==
    LET duration == originalSeg.end - originalSeg.start
        timePerSegment == IF Len(parts) = 0 THEN 0 ELSE duration \div Len(parts)
    IN  [i \in 1..Len(parts) |->
            [speaker |-> parts[i].speaker,
             text |-> parts[i].text,
             emotion |-> originalSeg.emotion,
             sentiment |-> originalSeg.sentiment,
             start |-> originalSeg.start + ((Len(parts) - i) * timePerSegment),
             end |-> originalSeg.start + ((Len(parts) - i + 1) * timePerSegment)]]

\* split.segments.map((seg, i) => ({...})) of one split
NewSegments(originalSeg, parts) ==
    LET duration == originalSeg.end - originalSeg.start
        timePerSegment == IF Len(parts) = 0 THEN 0 ELSE duration \div Len(parts)
    IN  [i \in 1..Len(parts) |->
            [speaker |-> parts[i].speaker,
             text |-> parts[i].text,
             emotion |-> originalSeg.emotion,
             sentiment |-> originalSeg.sentiment,
             start |-> originalSeg.start + ((i - 1) * timePerSegment),
             end |-> originalSeg.start + (i * timePerSegment)]]

\* correctedSegments.splice(index, 1, ...newSegments)
Splice(segs, index, newSegments) ==
    SubSeq(segs, 1, index) \o newSegments \o SubSeq(segs, index + 2, Len(segs))

\* The forEach over the sorted splits, for splits that do not throw
RECURSIVE ApplySorted(_, _)
ApplySorted(segs, sorted) ==
    IF Len(sorted) = 0 THEN segs
    ELSE LET split == Head(sorted)
         IN  ApplySorted(
                Splice(segs, split.originalIndex,
                       NewSegments(segs[split.originalIndex + 1], split.segments)),
                Tail(sorted))

\* originalSeg.end of a split whose index is outside the array as it then
\* stands throws a TypeError
RECURSIVE ThrowsOnSorted(_, _)
ThrowsOnSorted(segs, sorted) ==
    IF Len(sorted) = 0 THEN FALSE
    ELSE LET split == Head(sorted)
         IN  IF split.originalIndex \notin 0..(Len(segs) - 1) THEN TRUE
             ELSE ThrowsOnSorted(
                     Splice(segs, split.originalIndex,
                            NewSegments(segs[split.originalIndex + 1], split.segments)),
                     Tail(sorted))

\* The splits applied in the order the response lists them (a faulty
\* variant, used for C6)
ApplySplitsMutUnsorted(segs, splits) ==
    IF ThrowsOnSorted(segs, splits) THEN segs ELSE ApplySorted(segs, splits)

\* response.splits.sort(...).forEach(...)
ApplySplits(segs, splits) == ApplySorted(segs, SortDesc(splits))

ThrowsOnSplits(segs, splits) == ThrowsOnSorted(segs, SortDesc(splits))

\* correctedSegments.map((seg, idx) => corrections.find(c => c.index === idx) ...)
ApplyCorrections(segs, corrections) ==
    [i \in 1..Len(segs) |->
        LET c == FirstIndex({ k \in 1..Len(corrections) :
                                 corrections[k].index = i - 1 })
        IN  IF c = 0 THEN segs[i]
            ELSE [segs[i] EXCEPT !.speaker = corrections[c].correctedSpeaker]]

\* The residual mapping with every segment classified by its own text (a
\* faulty variant, used for C34)
ApplyFallbackMutPerSegment(segs) ==
    [i \in 1..Len(segs) |->
        IF segs[i].speaker \in Roles THEN segs[i]
        ELSE [segs[i] EXCEPT !.speaker = IF HasSalesCue(segs[i].text)
                                         THEN "Salesperson" ELSE "Customer"]]

\* The residual mapping of labels that are not yet a role: the first segment
\* carrying a label decides the role of every segment carrying it.
ApplyFallback(segs) ==
    LET FirstOf(label) == CHOOSE i \in 1..Len(segs) :
            /\ segs[i].speaker = label
            /\ \A j \in 1..(i - 1) : segs[j].speaker # label
        Mapping(label) == IF HasSalesCue(segs[FirstOf(label)].text)
                          THEN "Salesperson" ELSE "Customer"
    IN  [i \in 1..Len(segs) |->
            IF segs[i].speaker \in Roles THEN segs[i]
            ELSE [segs[i] EXCEPT !.speaker = Mapping(segs[i].speaker)]]

\* The pass splicing the array it was given instead of a copy, so that the
\* splits made before one throws stay in what the catch returns (a faulty
\* variant, used for C38)
RECURSIVE SplicedUntilThrow(_, _)
SplicedUntilThrow(segs, sorted) ==
    IF Len(sorted) = 0 THEN segs
    ELSE LET split == Head(sorted)
         IN  IF split.originalIndex \notin 0..(Len(segs) - 1) THEN segs
             ELSE SplicedUntilThrow(
                     Splice(segs, split.originalIndex,
                            NewSegments(segs[split.originalIndex + 1], split.segments)),
                     Tail(sorted))

CorrectSpeakerIdentificationMutInPlace(segs, response) ==
    IF ThrowsOnSplits(segs, response.splits)
    THEN SplicedUntilThrow(segs, SortDesc(response.splits))
    ELSE ApplyFallback(
            ApplyCorrections(ApplySplits(segs, response.splits), response.corrections))

\* The value correctSpeakerIdentification resolves to for a parsed response
CorrectSpeakerIdentification(segs, response) ==
    IF ThrowsOnSplits(segs, response.splits) THEN segs
    ELSE ApplyFallback(
            ApplyCorrections(ApplySplits(segs, response.splits), response.corrections))

\* ------------------------------------------------------------ error texts
SdkLoadError == "Azure Speech SDK failed to load."
SdkNotLoadedError == "Azure Speech SDK not loaded yet."
AzureStartError == "Failed to start speaker identification."
StartError == "Failed to start recording. Please check microphone permissions."
RecognitionError == "Speech recognition error"
SaveError == "Failed to save recording"

\* ------------------------------------------------------ analyzeFullRecording
TooShortSummary == "Recording completed. Transcript was too short for detailed analysis."
ApiErrorSummary == "Recording completed. Full transcript available for review."
DefaultCard == [tag |-> "STRENGTH", text |-> "Call completed successfully"]

\* What the full-analysis call may answer: a parsed object, or text that
\* JSON.parse rejects.
ParsedAnalysis ==
    [overallAnalysis |-> "The offer was clear.",
     strengths |-> <<"Clear offer">>,
     opportunities |-> <<"Ask more questions">>]
RawAnalysisText == "Sorry, I cannot analyse this call."

CoachingCards(parsed) ==
    [i \in 1..Min(3, Len(parsed.strengths)) |->
        [tag |-> "STRENGTH", text |-> parsed.strengths[i]]]
    \o [i \in 1..Min(3, Len(parsed.opportunities)) |->
        [tag |-> "OPPORTUNITY", text |-> parsed.opportunities[i]]]

\* fullTranscript.trim().length for the "[speaker] text" lines joined by "\n"
FullTranscriptLen(segs) ==
    IF Len(segs) = 0 THEN 0
    ELSE SumSeq([i \in 1..Len(segs) |->
                    3 + StrLen(segs[i].speaker) + StrLen(segs[i].text)])
         + (Len(segs) - 1)

\* ---------------------------------------------------------- calculateMetrics
\* Math.round(num / den) of a quotient that is not negative
RoundDiv(num, den) == (2 * num + den) \div (2 * den)

\* Array.from(speakerTime.entries()): the speakers in the order the Map came
\* to hold them
RECURSIVE SpeakersInOrder(_)
SpeakersInOrder(segs) ==
    IF Len(segs) = 0 THEN <<>>
    ELSE LET before == SpeakersInOrder(SubSeq(segs, 1, Len(segs) - 1))
             speaker == segs[Len(segs)].speaker
         IN  IF \E k \in 1..Len(before) : before[k] = speaker
             THEN before ELSE Append(before, speaker)

\* speakerTime.get(speaker) after the forEach, in ticks
SpeakerTime(segs, speaker) ==
    SumSeq([j \in 1..Len(segs) |->
               IF segs[j].speaker = speaker THEN segs[j].end - segs[j].start ELSE 0])

\* talkRatio: the string `${salesRatio}:${customerRatio}` as the pair of its
\* two numbers, "50:50" as <<50, 50>>
TalkRatio(segs) ==
    LET speakers == SpeakersInOrder(segs)
        totalTime == SumSeq([k \in 1..Len(speakers) |-> SpeakerTime(segs, speakers[k])])
    IN  IF Len(speakers) >= 2 /\ totalTime > 0
        THEN <<RoundDiv(100 * SpeakerTime(segs, speakers[1]), totalTime),
               RoundDiv(100 * SpeakerTime(segs, speakers[2]), totalTime)>>
        ELSE <<50, 50>>

\* seg.text.split(/\s+/).filter(word => word.length > 0).length
WordCount(text) ==
    CASE text = ShortText -> 1
      [] text = MixedText -> 8
      [] text = QuestionText -> 2
      [] text = OfferText -> 6
      [] text = KeywordText -> 8
      [] text = ProtoText -> 7
      [] text = LongText -> 63
      [] OTHER -> 0

TotalWords(segs) == SumSeq([j \in 1..Len(segs) |-> WordCount(segs[j].text)])

\* The score of a sentiment the forEach counts
SentimentScore(sentiment) ==
    CASE sentiment = "positive" -> 80
      [] sentiment = "neutral" -> 60
      [] sentiment = "negative" -> 40

Scored(segs) ==
    { j \in 1..Len(segs) : segs[j].sentiment \in {"positive", "neutral", "negative"} }

TotalSentimentScore(segs) ==
    SumSeq([j \in 1..Len(segs) |->
               IF j \in Scored(segs) THEN SentimentScore(segs[j].sentiment) ELSE 0])

\* The mean taken over all segments (a faulty variant, used for C26)
AvgSentimentMutAllSegments(segs) ==
    IF Cardinality(Scored(segs)) > 0
    THEN RoundDiv(TotalSentimentScore(segs), Len(segs))
    ELSE 50

\* avgSentiment
AvgSentiment(segs) ==
    IF Cardinality(Scored(segs)) > 0
    THEN RoundDiv(TotalSentimentScore(segs), Cardinality(Scored(segs)))
    ELSE 50

MinWpm == 80
MaxWpm == 200
MinEngagement == 20
MaxEngagement == 95
DefaultEngagement == 50
DefaultDurationSeconds == 60

\* The score without the clamp of normalized at 1 (a faulty variant, used
\* for C27)
EngagementMutNoCeiling(totalWords, totalDuration) ==
    LET num == totalWords * 60 * TicksPerSecond
        den == totalDuration
    IN  IF totalWords = 0 THEN DefaultEngagement
        ELSE IF den = 0 THEN MaxEngagement
        ELSE IF num <= MinWpm * den THEN MinEngagement
        ELSE RoundDiv(MinEngagement * (MaxWpm - MinWpm) * den
                        + (MaxEngagement - MinEngagement) * (num - MinWpm * den),
                      (MaxWpm - MinWpm) * den)

\* engagement, from totalWords and totalDuration (in ticks): wordsPerMinute
\* is the quotient num / den, Infinity for words in no time and NaN (which
\* is not > 0) for no words in no time
Engagement(totalWords, totalDuration) ==
    LET num == totalWords * 60 * TicksPerSecond
        den == totalDuration
    IN  IF totalWords = 0 THEN DefaultEngagement
        ELSE IF den = 0 \/ num >= MaxWpm * den THEN MaxEngagement
        ELSE IF num <= MinWpm * den THEN MinEngagement
        ELSE RoundDiv(MinEngagement * (MaxWpm - MinWpm) * den
                        + (MaxEngagement - MinEngagement) * (num - MinWpm * den),
                      (MaxWpm - MinWpm) * den)

\* totalDuration: the end of the last segment, 60 s for no segment
TotalDuration(segs) ==
    IF Len(segs) > 0 THEN segs[Len(segs)].end
    ELSE DefaultDurationSeconds * TicksPerSecond

\* The three numbers calculateMetrics computes; the other fields of its
\* result are constants
CalculateMetrics(segs) ==
    [talkToListenRatio |-> TalkRatio(segs),
     sentimentScoreAvg |-> AvgSentiment(segs),
     engagementPercentage |-> Engagement(TotalWords(segs), TotalDuration(segs))]

\* ----------------------------------------------------- generateSentimentGraph
\* formatTime: `${mins}:${secs padded to two digits}` as the pair of its two
\* numbers, "0:00" as <<0, 0>>
FormatTime(ticks) ==
    <<ticks \div (60 * TicksPerSecond), (ticks % (60 * TicksPerSecond)) \div TicksPerSecond>>

FirstPoint == [time |-> <<0, 0>>, sentiment |-> 50]

\* The loop from the array index i on, with the points, the cumulative score
\* and the number of segments scored so far
RECURSIVE GraphFrom(_, _, _, _, _)
GraphFrom(segs, i, points, cumulativeSentiment, segmentCount) ==
    IF i >= Len(segs) THEN points
    ELSE LET seg == segs[i + 1]
         IN  IF seg.sentiment = Undefined
             THEN GraphFrom(segs, i + 1, points, cumulativeSentiment, segmentCount)
             ELSE LET score == IF seg.sentiment = "positive" THEN 80
                               ELSE IF seg.sentiment = "neutral" THEN 60 ELSE 40
                      cumulative == cumulativeSentiment + score
                      count == segmentCount + 1
                      currentAvg == RoundDiv(cumulative, count)
                      lastPoint == points[Len(points)]
                      push == /\ i % 2 = 0 \/ Len(points) = 1
                              /\ \/ Len(points) = 1
                                 \/ Abs(currentAvg - lastPoint.sentiment) > 10
                  IN  GraphFrom(segs, i + 1,
                                IF push
                                THEN Append(points, [time |-> FormatTime(seg.start),
                                                     sentiment |-> currentAvg])
                                ELSE points,
                                cumulative, count)

\* The series without its opening point when no segment has a sentiment (a
\* faulty variant, used for C28)
GenerateSentimentGraphMutNoOpening(segs) ==
    IF \A j \in 1..Len(segs) : segs[j].sentiment = Undefined
    THEN <<>>
    ELSE GraphFrom(segs, 0, <<FirstPoint>>, 0, 0)

GenerateSentimentGraph(segs) == GraphFrom(segs, 0, <<FirstPoint>>, 0, 0)

\* ------------------------------------------------------------ extractKeywords
MaxKeywords == 30
MinKeywordLen == 2
MinKeywordCount == 2

StopWords ==
    {"the", "a", "an", "and", "or", "but", "in", "on", "at", "to", "for",
     "of", "with", "is", "are", "was", "were", "be", "been", "being", "have",
     "has", "had", "do", "does", "did", "will", "would", "could", "should",
     "may", "might", "must", "can", "i", "you", "he", "she", "it", "we",
     "they", "them", "their", "this", "that", "these", "those", "am", "yes",
     "no", "not", "so", "if", "than", "as", "my", "your", "our", "me", "him",
     "her", "us", "what", "when", "where", "who", "why", "how", "all",
     "each", "every", "both", "few", "more", "most", "some", "such", "any",
     "very", "just", "about", "up", "out", "down", "there", "here", "now",
     "then", "well", "also", "too", "only", "even", "want", "need", "think",
     "know", "get", "got", "going", "go", "like", "really", "yeah", "okay",
     "ok", "um", "uh", "right"}

\* text.toLowerCase().replace(/[^\w\s]/g, ' ').split(/\s+/) of one text,
\* without the empty string a text that ends in punctuation leaves at the end
LongTokens ==
    <<"price", "price", "plan", "plan", "team", "team", "demo", "demo",
      "trial", "trial", "budget", "budget", "contract", "contract",
      "support", "support", "feature", "feature", "license", "license",
      "renewal", "renewal", "discount", "discount", "invoice", "invoice",
      "account", "account", "manager", "manager", "training", "training",
      "security", "security", "platform", "platform", "report", "report",
      "dashboard", "dashboard", "integration", "integration", "customer",
      "customer", "service", "service", "upgrade", "upgrade", "storage",
      "storage", "backup", "backup", "mobile", "mobile", "email", "email",
      "calendar", "calendar", "workflow", "workflow", "analytics",
      "analytics", "analytics">>

Tokens(text) ==
    CASE text = ShortText -> <<"hi">>
      [] text = MixedText ->
            <<"can", "i", "show", "you", "our", "product", "what", "product">>
      [] text = QuestionText -> <<"what", "product">>
      [] text = OfferText -> <<"can", "i", "show", "you", "our", "product">>
      [] text = KeywordText ->
            <<"plan", "b", "costs", "24", "plan", "b", "costs", "24">>
      [] text = ProtoText ->
            <<"our", "constructor", "asked", "for", "the", "constructor", "plan">>
      [] text = LongText -> LongTokens
      [] OTHER -> <<>>

\* The split of the texts joined by ' ': every text of the model ends in
\* punctuation, which leaves one empty string after the last token
RECURSIVE JoinTokens(_)
JoinTokens(segs) ==
    IF Len(segs) = 0 THEN <<>>
    ELSE Tokens(Head(segs).text) \o JoinTokens(Tail(segs))

AllTokens(segs) == IF Len(segs) = 0 THEN <<"">> ELSE Append(JoinTokens(segs), "")

\* word.length, as far as the filter looks at it
TokenLen(word) ==
    CASE word = "" -> 0
      [] word \in {"i", "b"} -> 1
      [] OTHER -> MinKeywordLen

\* /^\d+$/.test(word)
IsNumeric(word) == word \in {"24"}

\* The filter of the split
Qualifies(word) ==
    /\ TokenLen(word) >= MinKeywordLen
    /\ word \notin StopWords
    /\ ~IsNumeric(word)

\* The lower-case property names an empty object literal inherits: for them
\* keywords[word] is an object before the first count, (object || 0) + 1 is a
\* string and not a number, and the filter's count >= 2 is false
InheritedKeys == {"constructor", "__proto__"}

\* The indices of a set in ascending order
RECURSIVE Ascending(_)
Ascending(S) ==
    IF S = {} THEN <<>>
    ELSE LET least == CHOOSE x \in S : \A y \in S : x <= y
         IN  <<least>> \o Ascending(S \ {least})

\* Object.entries(keywords) after the counting loop: one entry per word in
\* the order of first occurrence
CountEntries(words) ==
    LET first == Ascending({ i \in 1..Len(words) :
                                 \A j \in 1..(i - 1) : words[j] # words[i] })
    IN  [k \in 1..Len(first) |->
            [word |-> words[first[k]],
             numeric |-> words[first[k]] \notin InheritedKeys,
             count |-> Cardinality({ i \in 1..Len(words) :
                                        words[i] = words[first[k]] })]]

\* .filter(([, count]) => count >= 2)
Frequent(entry) == entry.numeric /\ entry.count >= MinKeywordCount

\* .sort(([, a], [, b]) => b - a): stable
RECURSIVE InsertByCount(_, _)
InsertByCount(sorted, entry) ==
    IF Len(sorted) = 0 THEN <<entry>>
    ELSE IF Head(sorted).count >= entry.count
         THEN <<Head(sorted)>> \o InsertByCount(Tail(sorted), entry)
         ELSE <<entry>> \o sorted

RECURSIVE SortByCount(_)
SortByCount(entries) ==
    IF Len(entries) = 0 THEN <<>>
    ELSE InsertByCount(SortByCount(SubSeq(entries, 1, Len(entries) - 1)),
                       entries[Len(entries)])

\* The entries of the object extractKeywords returns, in its key order
ExtractKeywords(segs) ==
    LET words == SelectSeq(AllTokens(segs), Qualifies)
        sorted == SortByCount(SelectSeq(CountEntries(words), Frequent))
    IN  [k \in 1..Min(MaxKeywords, Len(sorted)) |->
            [word |-> sorted[k].word, count |-> sorted[k].count]]

\* ------------------------------------------------------------------- tasks
\* A suspended async function: where it waits (pc), the segments the pending
\* correction call was given (segs), how the correction call ended (corr),
\* and the arguments it carries to
\* saveToFirebase (summary, cards, keywords) and to addDoc (doc).  The session field
\* is not program state: it records during which session (the how-manieth
\* start) the function was called, so that properties can tell the sessions
\* apart.
Task(session, pc, segs, corr, summary, cards, keywords, doc) ==
    [session |-> session, pc |-> pc, segs |-> segs, corr |-> corr,
     summary |-> summary, cards |-> cards, keywords |-> keywords, doc |-> doc]

NewTaskOf(session, pc) == Task(session, pc, <<>>, "none", "", <<>>, <<>>, <<>>)

NewTask(pc) == NewTaskOf(starts, pc)

AtPc(i, pc) == i \in 1..Len(tasks) /\ tasks[i].pc = pc

\* -------------------------------------------------------------------- Init
Init ==
    /\ recordingState = IDLE
    /\ transcript = <<>>
    /\ realtimeFeedback = <<>>
    /\ error = Null
    /\ sdk = "loading"
    /\ azureTranscriberRef = "null"
    /\ geminiModelRef = FALSE
    /\ mediaRecorderRef = "null"
    /\ audioChunksRef = 0
    /\ isManuallyStopping = FALSE
    /\ geminiSegmentsRef = <<>>
    /\ azureSegmentsRef = <<>>
    /\ combinedTranscriptRef = <<>>
    /\ clock = 0
    /\ pending = {}
    /\ tasks = <<>>
    /\ currentUser \in BOOLEAN
    /\ storedAudio = 0
    /\ recordings = <<>>
    /\ starts = 0
    /\ stops = 0
    /\ events = 0
    /\ uploadProgress = 0
    /\ currentFile = Null
    /\ transcriptSegmentsRef = <<>>
    /\ speakerNamesRef = <<>>

buffers == <<geminiSegmentsRef, azureSegmentsRef, combinedTranscriptRef>>
store == <<storedAudio, recordings>>
counters == <<starts, stops, events>>
refs == <<azureTranscriberRef, geminiModelRef, mediaRecorderRef>>
\* The state only the file-replay hook has
fileHook == <<uploadProgress, currentFile, transcriptSegmentsRef, speakerNamesRef>>

\* ----------------------------------------------------------- SDK loading
\* script.onload with the global present
SdkLoaded ==
    /\ sdk = "loading"
    /\ sdk' = "ready"
    /\ UNCHANGED <<recordingState, transcript, realtimeFeedback, error, refs,
                   audioChunksRef, isManuallyStopping, buffers, clock, pending,
                   tasks, currentUser, fileHook, store, counters>>

\* script.onerror, or script.onload without the global
SdkLoadFailed ==
    /\ sdk = "loading"
    /\ sdk' = "failed"
    /\ error' = SdkLoadError
    /\ UNCHANGED <<recordingState, transcript, realtimeFeedback, refs,
                   audioChunksRef, isManuallyStopping, buffers, clock, pending,
                   tasks, currentUser, fileHook, store, counters>>

\* ---------------------------------------------------------------- cleanup
CleanupRecorder(recorder) == IF recorder = "recording" THEN "inactive" ELSE recorder

\* ---------------------------------------------------------- startRecording
\* The Start button is rendered in IDLE and disabled while an error is shown
\* or the SDK is loading.  Runs up to the await of getUserMedia.
StartRecording ==
    /\ recordingState = IDLE
    /\ error = Null
    /\ sdk # "loading"
    /\ starts' = starts + 1
    /\ recordingState' = RECORDING
    /\ error' = Null
    /\ geminiSegmentsRef' = <<>>
    /\ azureSegmentsRef' = <<>>
    /\ combinedTranscriptRef' = <<>>
    /\ audioChunksRef' = 0
    /\ clock' = 0
    /\ geminiModelRef' = TRUE
    /\ tasks' = Append(tasks, NewTaskOf(starts + 1, "media"))
    /\ UNCHANGED <<transcript, realtimeFeedback, sdk, azureTranscriberRef,
                   mediaRecorderRef, isManuallyStopping, pending, currentUser, fileHook,
                   store, stops, events>>

\* getUserMedia rejects: the catch of startRecording
MediaDenied(i) ==
    /\ AtPc(i, "media")
    /\ error' = StartError
    /\ recordingState' = IDLE
    /\ tasks' = RemoveAt(tasks, i)
    /\ UNCHANGED <<transcript, realtimeFeedback, sdk, refs, audioChunksRef,
                   isManuallyStopping, buffers, clock, pending, currentUser, fileHook,
                   store, counters>>

\* getUserMedia resolves; startAzureDiarization finds no SDK and returns
MediaGrantedNoSdk(i) ==
    /\ AtPc(i, "media")
    /\ sdk # "ready"
    /\ mediaRecorderRef' = "recording"
    /\ error' = SdkNotLoadedError
    /\ tasks' = RemoveAt(tasks, i)
    /\ UNCHANGED <<recordingState, transcript, realtimeFeedback, sdk,
                   azureTranscriberRef, geminiModelRef, audioChunksRef,
                   isManuallyStopping, buffers, clock, pending, currentUser, fileHook,
                   store, counters>>

\* getUserMedia resolves; building the speech configuration throws
MediaGrantedConfigThrows(i) ==
    /\ AtPc(i, "media")
    /\ sdk = "ready"
    /\ mediaRecorderRef' = "recording"
    /\ error' = AzureStartError
    /\ tasks' = RemoveAt(tasks, i)
    /\ UNCHANGED <<recordingState, transcript, realtimeFeedback, sdk,
                   azureTranscriberRef, geminiModelRef, audioChunksRef,
                   isManuallyStopping, buffers, clock, pending, currentUser, fileHook,
                   store, counters>>

\* getUserMedia resolves; the transcriber is created and asked to start
MediaGranted(i) ==
    /\ AtPc(i, "media")
    /\ sdk = "ready"
    /\ mediaRecorderRef' = "recording"
    /\ azureTranscriberRef' = "starting"
    /\ tasks' = [tasks EXCEPT ![i].pc = "azureStart"]
    /\ UNCHANGED <<recordingState, transcript, realtimeFeedback, error, sdk,
                   geminiModelRef, audioChunksRef, isManuallyStopping, buffers,
                   clock, pending, currentUser, fileHook, store, counters>>

\* startTranscribingAsync resolves
AzureStarted(i) ==
    /\ AtPc(i, "azureStart")
    /\ azureTranscriberRef' =
          IF azureTranscriberRef = "starting" THEN "running" ELSE azureTranscriberRef
    /\ tasks' = RemoveAt(tasks, i)
    /\ UNCHANGED <<recordingState, transcript, realtimeFeedback, error, sdk,
                   geminiModelRef, mediaRecorderRef, audioChunksRef,
                   isManuallyStopping, buffers, clock, pending, currentUser, fileHook,
                   store, counters>>

\* startTranscribingAsync rejects: the catch of startAzureDiarization
AzureStartRejected(i) ==
    /\ AtPc(i, "azureStart")
    /\ azureTranscriberRef' =
          IF azureTranscriberRef = "starting" THEN "stopped" ELSE azureTranscriberRef
    /\ error' = AzureStartError
    /\ tasks' = RemoveAt(tasks, i)
    /\ UNCHANGED <<recordingState, transcript, realtimeFeedback, sdk,
                   geminiModelRef, mediaRecorderRef, audioChunksRef,
                   isManuallyStopping, buffers, clock, pending, currentUser, fileHook,
                   store, counters>>

\* mediaRecorder.ondataavailable with a non-empty chunk
DataAvailable ==
    /\ mediaRecorderRef = "recording"
    /\ audioChunksRef < MaxChunks
    /\ audioChunksRef' = audioChunksRef + 1
    /\ UNCHANGED <<recordingState, transcript, realtimeFeedback, error, sdk, refs,
                   isManuallyStopping, buffers, clock, pending, tasks,
                   currentUser, fileHook, store, counters>>

\* ------------------------------------------------ transcriber.transcribed
\* A recognised utterance, reported at second t (later than the one before)
\* and lasting d seconds.  The
\* handler records the segment, issues the annotate call for it (which
\* returns at once for a missing model or a text below five characters) and
\* merges.
Transcribed(speakerId, text, t, d) ==
    /\ azureTranscriberRef \in {"running", "stopping"}
    /\ events' = events + 1
    /\ clock' = t
    /\ LET segment == [speakerId |-> speakerId, text |-> text,
                       start |-> (t - d) * TicksPerSecond,
                       end |-> t * TicksPerSecond]
           azure == Append(azureSegmentsRef, segment)
           combined == MergeSegments(azure, geminiSegmentsRef)
       IN  /\ azureSegmentsRef' = azure
           /\ pending' =
                IF geminiModelRef /\ StrLen(text) >= MinAnnotateLen
                THEN pending \cup {[id |-> events + 1, session |-> starts,
                                    text |-> text,
                                    timestamp |-> t * TicksPerSecond]}
                ELSE pending
           /\ combinedTranscriptRef' = combined
           /\ transcript' = DisplayText(combined)
    /\ UNCHANGED <<recordingState, realtimeFeedback, error, sdk, refs,
                   audioChunksRef, isManuallyStopping, geminiSegmentsRef, tasks,
                   currentUser, fileHook, store, starts, stops>>

\* ---------------------------------------------------- analyzeTextWithGemini
\* The feed with the new string put last and the oldest one dropped (a
\* faulty variant, used for C24)
PushFeedbackMutAppends(feed, feedback) ==
    IF feedback = "" THEN feed
    ELSE LET all == Append(feed, feedback)
         IN  IF Len(all) <= MaxFeedback THEN all ELSE Tail(all)

\* [parsed.feedback, ...prev].slice(0, 5)
PushFeedback(feed, feedback) ==
    IF feedback = "" THEN feed
    ELSE SubSeq(<<feedback>> \o feed, 1, Min(MaxFeedback, Len(feed) + 1))

\* generateContent resolves with JSON that parses
AnnotateParsed(call, outcome) ==
    /\ call \in pending
    /\ pending' = pending \ {call}
    /\ LET gemini == Append(geminiSegmentsRef,
                        [text |-> call.text, emotion |-> outcome.emotion,
                         sentiment |-> outcome.sentiment,
                         timestamp |-> call.timestamp])
           combined == MergeSegments(azureSegmentsRef, gemini)
       IN  /\ geminiSegmentsRef' = gemini
           /\ combinedTranscriptRef' = combined
           /\ transcript' = DisplayText(combined)
    /\ realtimeFeedback' = PushFeedback(realtimeFeedback, outcome.feedback)
    /\ UNCHANGED <<recordingState, error, sdk, refs, audioChunksRef,
                   isManuallyStopping, azureSegmentsRef, clock, tasks,
                   currentUser, fileHook, store, counters>>

\* generateContent resolves with text JSON.parse rejects: the inner catch
AnnotateMalformed(call) ==
    /\ call \in pending
    /\ pending' = pending \ {call}
    /\ LET gemini == Append(geminiSegmentsRef,
                        [text |-> call.text, emotion |-> Undefined,
                         sentiment |-> Undefined,
                         timestamp |-> call.timestamp])
           combined == MergeSegments(azureSegmentsRef, gemini)
       IN  /\ geminiSegmentsRef' = gemini
           /\ combinedTranscriptRef' = combined
           /\ transcript' = DisplayText(combined)
    /\ UNCHANGED <<recordingState, realtimeFeedback, error, sdk, refs,
                   audioChunksRef, isManuallyStopping, azureSegmentsRef, clock,
                   tasks, currentUser, fileHook, store, counters>>

\* A rejection that escapes the handler and ends the session (a faulty
\* variant, used for C4)
AnnotateApiErrorMutAborts(call) ==
    /\ call \in pending
    /\ pending' = pending \ {call}
    /\ recordingState' = IDLE
    /\ UNCHANGED <<transcript, realtimeFeedback, error, sdk, refs,
                   audioChunksRef, isManuallyStopping, buffers, clock, tasks,
                   currentUser, fileHook, store, counters>>

\* generateContent rejects: the outer catch
AnnotateApiError(call) ==
    /\ call \in pending
    /\ pending' = pending \ {call}
    /\ UNCHANGED <<recordingState, transcript, realtimeFeedback, error, sdk, refs,
                   audioChunksRef, isManuallyStopping, buffers, clock, tasks,
                   currentUser, fileHook, store, counters>>

\* ----------------------------------------------------------- stopRecording
\* stopRecording up to its first await, called with the transcriber in state
\* transcriber: it waits for stopTranscribingAsync when the ref holds a
\* transcriber, and otherwise goes on to the grace delay at once.
StopRecordingCall(transcriber) ==
    /\ isManuallyStopping' = TRUE
    /\ IF transcriber # "null"
       THEN /\ azureTranscriberRef' =
                  IF transcriber = "running" THEN "stopping" ELSE transcriber
            /\ tasks' = Append(tasks, NewTask("stopAzure"))
            /\ UNCHANGED <<mediaRecorderRef, recordingState>>
       ELSE /\ azureTranscriberRef' = transcriber
            /\ mediaRecorderRef' = CleanupRecorder(mediaRecorderRef)
            /\ recordingState' = ANALYZING
            /\ tasks' = Append(tasks, NewTask("grace"))

\* The Stop button, rendered while RECORDING
StopRecording ==
    /\ recordingState = RECORDING
    /\ stops' = stops + 1
    /\ StopRecordingCall(azureTranscriberRef)
    /\ UNCHANGED <<transcript, realtimeFeedback, error, sdk, geminiModelRef,
                   audioChunksRef, buffers, clock, pending, currentUser, fileHook, store,
                   starts, events>>

\* transcriber.sessionStopped
SessionStopped ==
    /\ azureTranscriberRef \in {"running", "stopping"}
    /\ IF isManuallyStopping
       THEN /\ azureTranscriberRef' = "stopped"
            /\ UNCHANGED <<isManuallyStopping, tasks, mediaRecorderRef,
                           recordingState, stops>>
       ELSE /\ stops' = stops + 1
            /\ StopRecordingCall("stopped")
    /\ UNCHANGED <<transcript, realtimeFeedback, error, sdk, geminiModelRef,
                   audioChunksRef, buffers, clock, pending, currentUser, fileHook, store,
                   starts, events>>

\* transcriber.canceled, with reason Error or EndOfStream
Canceled(withError) ==
    /\ azureTranscriberRef \in {"running", "stopping"}
    /\ error' = IF withError THEN RecognitionError ELSE error
    /\ azureTranscriberRef' = "null"
    /\ geminiModelRef' = FALSE
    /\ mediaRecorderRef' = CleanupRecorder(mediaRecorderRef)
    /\ recordingState' = IDLE
    /\ UNCHANGED <<transcript, realtimeFeedback, sdk, audioChunksRef,
                   isManuallyStopping, buffers, clock, pending, tasks,
                   currentUser, fileHook, store, counters>>

\* stopTranscribingAsync resolves; up to the await of the 2 s timer
StopAzureDone(i) ==
    /\ AtPc(i, "stopAzure")
    /\ azureTranscriberRef' =
          IF azureTranscriberRef = "stopping" THEN "stopped" ELSE azureTranscriberRef
    /\ mediaRecorderRef' = CleanupRecorder(mediaRecorderRef)
    /\ recordingState' = ANALYZING
    /\ tasks' = [tasks EXCEPT ![i].pc = "grace"]
    /\ UNCHANGED <<transcript, realtimeFeedback, error, sdk, geminiModelRef,
                   audioChunksRef, isManuallyStopping, buffers, clock, pending,
                   currentUser, fileHook, store, counters>>

\* ---------------------------------------------------------- saveToFirebase
\* saveToFirebase(summary, cards, ...) up to the await of uploadBytes, entered
\* by task i whose record is then t: without a signed-in user it throws into
\* its own catch and returns.
SaveToFirebaseCall(i, t, summary, cards) ==
    IF currentUser
    THEN /\ tasks' = [tasks EXCEPT ![i] =
                        [t EXCEPT !.pc = "upload", !.summary = summary, !.cards = cards]]
         /\ error' = error
    ELSE /\ tasks' = RemoveAt(tasks, i)
         /\ error' = SaveError

\* stopRecording from the value correctSpeakerIdentification resolved to, on
\* into analyzeFullRecording up to its first await.
AfterCorrection(i, t, corrected) ==
    /\ combinedTranscriptRef' = corrected
    /\ transcript' = DisplayText(corrected)
    /\ IF FullTranscriptLen(corrected) < MinTranscriptLen
       THEN SaveToFirebaseCall(i, t, TooShortSummary, <<>>)
       ELSE /\ tasks' = [tasks EXCEPT ![i] =
                            [t EXCEPT !.pc = "analyze",
                                      !.keywords = ExtractKeywords(corrected)]]
            /\ error' = error

\* A final merge that waits until no annotate call is out (a faulty variant,
\* used for C15)
GraceElapsedMutWaits(i) ==
    /\ AtPc(i, "grace")
    /\ pending = {}
    /\ LET merged == MergeSegments(azureSegmentsRef, geminiSegmentsRef)
       IN  /\ combinedTranscriptRef' = merged
           /\ transcript' = DisplayText(merged)
           /\ tasks' = [tasks EXCEPT ![i] =
                           [@ EXCEPT !.pc = "correct", !.segs = merged]]
           /\ error' = error
    /\ UNCHANGED <<recordingState, realtimeFeedback, sdk, refs, audioChunksRef,
                   isManuallyStopping, geminiSegmentsRef, azureSegmentsRef, clock,
                   pending, currentUser, fileHook, store, counters>>

\* The 2 s timer fires: the final merge, then the correction pass, which
\* returns its input at once when there is no segment.
GraceElapsed(i) ==
    /\ AtPc(i, "grace")
    /\ LET merged == MergeSegments(azureSegmentsRef, geminiSegmentsRef)
       IN  IF Len(merged) = 0
           THEN AfterCorrection(i, [tasks[i] EXCEPT !.corr = "empty"], merged)
           ELSE /\ combinedTranscriptRef' = merged
                /\ transcript' = DisplayText(merged)
                /\ tasks' = [tasks EXCEPT ![i] =
                                [@ EXCEPT !.pc = "correct", !.segs = merged]]
                /\ error' = error
    /\ UNCHANGED <<recordingState, realtimeFeedback, sdk, refs, audioChunksRef,
                   isManuallyStopping, geminiSegmentsRef, azureSegmentsRef, clock,
                   pending, currentUser, fileHook, store, counters>>

\* The correction call resolves with JSON that parses
CorrectParsed(i, response) ==
    /\ AtPc(i, "correct")
    /\ AfterCorrection(i,
          [tasks[i] EXCEPT !.segs = <<>>,
                           !.corr = IF ThrowsOnSplits(tasks[i].segs, response.splits)
                                    THEN "threw" ELSE "applied"],
          CorrectSpeakerIdentification(tasks[i].segs, response))
    /\ UNCHANGED <<recordingState, realtimeFeedback, sdk, refs, audioChunksRef,
                   isManuallyStopping, geminiSegmentsRef, azureSegmentsRef, clock,
                   pending, currentUser, fileHook, store, counters>>

\* A failure that loses the transcript (a faulty variant, used for C7)
CorrectFailedMutDropsTranscript(i, how) ==
    /\ AtPc(i, "correct")
    /\ AfterCorrection(i, [tasks[i] EXCEPT !.segs = <<>>, !.corr = how], <<>>)
    /\ UNCHANGED <<recordingState, realtimeFeedback, sdk, refs, audioChunksRef,
                   isManuallyStopping, geminiSegmentsRef, azureSegmentsRef, clock,
                   pending, currentUser, fileHook, store, counters>>

\* The correction call rejects, or resolves with text JSON.parse rejects:
\* both catches return the segments the pass was called with.
CorrectFailed(i, how) ==
    /\ AtPc(i, "correct")
    /\ AfterCorrection(i, [tasks[i] EXCEPT !.segs = <<>>, !.corr = how], tasks[i].segs)
    /\ UNCHANGED <<recordingState, realtimeFeedback, sdk, refs, audioChunksRef,
                   isManuallyStopping, geminiSegmentsRef, azureSegmentsRef, clock,
                   pending, currentUser, fileHook, store, counters>>

\* The full-analysis call resolves with JSON that parses
AnalyzeParsed(i) ==
    /\ AtPc(i, "analyze")
    /\ SaveToFirebaseCall(i, tasks[i], ParsedAnalysis.overallAnalysis,
                          CoachingCards(ParsedAnalysis))
    /\ UNCHANGED <<recordingState, transcript, realtimeFeedback, sdk, refs,
                   audioChunksRef, isManuallyStopping, buffers, clock, pending,
                   currentUser, fileHook, store, counters>>

\* The full-analysis call resolves with text JSON.parse rejects
AnalyzeMalformed(i) ==
    /\ AtPc(i, "analyze")
    /\ SaveToFirebaseCall(i, tasks[i], RawAnalysisText, <<DefaultCard>>)
    /\ UNCHANGED <<recordingState, transcript, realtimeFeedback, sdk, refs,
                   audioChunksRef, isManuallyStopping, buffers, clock, pending,
                   currentUser, fileHook, store, counters>>

\* A rejection that gives the session up (a faulty variant, used for C10)
AnalyzeApiErrorMutBackToIdle(i) ==
    /\ AtPc(i, "analyze")
    /\ recordingState' = IDLE
    /\ tasks' = RemoveAt(tasks, i)
    /\ UNCHANGED <<transcript, realtimeFeedback, error, sdk, refs,
                   audioChunksRef, isManuallyStopping, buffers, clock, pending,
                   currentUser, fileHook, store, counters>>

\* The full-analysis call rejects
AnalyzeApiError(i) ==
    /\ AtPc(i, "analyze")
    /\ SaveToFirebaseCall(i, tasks[i], ApiErrorSummary, <<>>)
    /\ UNCHANGED <<recordingState, transcript, realtimeFeedback, sdk, refs,
                   audioChunksRef, isManuallyStopping, buffers, clock, pending,
                   currentUser, fileHook, store, counters>>

\* uploadBytes and getDownloadURL resolve; the document is built from the
\* segments held at that moment and handed to addDoc.  Its session field is
\* not written by the program: it records which session's stop built it.
UploadDone(i) ==
    /\ AtPc(i, "upload")
    /\ storedAudio' = storedAudio + 1
    /\ LET t == tasks[i]
           doc == [session |-> t.session,
                   transcriptSegments |-> combinedTranscriptRef,
                   sentimentGraph |-> GenerateSentimentGraph(combinedTranscriptRef),
                   recordingStats |-> CalculateMetrics(combinedTranscriptRef),
                   keywords |-> t.keywords,
                   geminiFullAnalysis |-> t.summary,
                   coachingCard |-> IF Len(t.cards) > 0 THEN t.cards
                                    ELSE <<DefaultCard>>]
       IN  tasks' = [tasks EXCEPT ![i] = [t EXCEPT !.pc = "addDoc", !.doc = <<doc>>]]
    /\ UNCHANGED <<recordingState, transcript, realtimeFeedback, error, sdk, refs,
                   audioChunksRef, isManuallyStopping, buffers, clock, pending,
                   currentUser, fileHook, recordings, counters>>

\* uploadBytes rejects (nothing stored) or getDownloadURL rejects (the blob
\* is stored): the catch of saveToFirebase
UploadFailed(i, blobStored) ==
    /\ AtPc(i, "upload")
    /\ storedAudio' = IF blobStored THEN storedAudio + 1 ELSE storedAudio
    /\ error' = SaveError
    /\ tasks' = RemoveAt(tasks, i)
    /\ UNCHANGED <<recordingState, transcript, realtimeFeedback, sdk, refs,
                   audioChunksRef, isManuallyStopping, buffers, clock, pending,
                   currentUser, fileHook, recordings, counters>>

\* addDoc resolves
AddDocDone(i) ==
    /\ AtPc(i, "addDoc")
    /\ recordings' = Append(recordings, tasks[i].doc[1])
    /\ recordingState' = DONE
    /\ tasks' = RemoveAt(tasks, i)
    /\ UNCHANGED <<transcript, realtimeFeedback, error, sdk, refs, audioChunksRef,
                   isManuallyStopping, buffers, clock, pending, currentUser, fileHook,
                   storedAudio, counters>>

\* addDoc rejects: the catch of saveToFirebase
AddDocFailed(i) ==
    /\ AtPc(i, "addDoc")
    /\ error' = SaveError
    /\ tasks' = RemoveAt(tasks, i)
    /\ UNCHANGED <<recordingState, transcript, realtimeFeedback, sdk, refs,
                   audioChunksRef, isManuallyStopping, buffers, clock, pending,
                   currentUser, fileHook, store, counters>>

\* -------------------------------------------------------------------- reset
\* A reset that leaves the feedback feed as it is (a faulty variant, used
\* for C12)
ResetMutKeepsFeedback ==
    /\ recordingState # IDLE
    /\ azureTranscriberRef' = "null"
    /\ geminiModelRef' = FALSE
    /\ mediaRecorderRef' = CleanupRecorder(mediaRecorderRef)
    /\ recordingState' = IDLE
    /\ transcript' = <<>>
    /\ error' = Null
    /\ geminiSegmentsRef' = <<>>
    /\ azureSegmentsRef' = <<>>
    /\ combinedTranscriptRef' = <<>>
    /\ audioChunksRef' = 0
    /\ isManuallyStopping' = FALSE
    /\ UNCHANGED <<realtimeFeedback, sdk, clock, pending, tasks, currentUser, fileHook,
                   store, counters>>

\* The hook does nothing once it is back in its initial state, so the model
\* takes no such step.
Reset ==
    /\ \/ recordingState # IDLE \/ error # Null \/ transcript # <<>>
       \/ realtimeFeedback # <<>> \/ azureTranscriberRef # "null" \/ geminiModelRef
       \/ mediaRecorderRef = "recording" \/ audioChunksRef # 0
       \/ isManuallyStopping \/ buffers # <<<<>>, <<>>, <<>>>>
    /\ azureTranscriberRef' = "null"
    /\ geminiModelRef' = FALSE
    /\ mediaRecorderRef' = CleanupRecorder(mediaRecorderRef)
    /\ recordingState' = IDLE
    /\ transcript' = <<>>
    /\ realtimeFeedback' = <<>>
    /\ error' = Null
    /\ geminiSegmentsRef' = <<>>
    /\ azureSegmentsRef' = <<>>
    /\ combinedTranscriptRef' = <<>>
    /\ audioChunksRef' = 0
    /\ isManuallyStopping' = FALSE
    /\ UNCHANGED <<sdk, clock, pending, tasks, currentUser, fileHook, store, counters>>

\* ------------------------------------------------------------ specification
\* The responses the correction call gives in a session: nothing to change, a
\* two-part split of the first segment, a reassignment of the first segment,
\* and a split naming an index past the end.
SessionResponses(segs) ==
    { NoResponse,
      [corrections |-> <<>>,
       splits |-> <<[originalIndex |-> 0,
                     segments |-> <<[speaker |-> "Salesperson", text |-> OfferText],
                                    [speaker |-> "Customer", text |-> QuestionText]>>]>>],
      [corrections |-> <<[index |-> 0, correctedSpeaker |-> "Salesperson"]>>,
       splits |-> <<>>],
      [corrections |-> <<>>,
       splits |-> <<[originalIndex |-> Len(segs),
                     segments |-> <<[speaker |-> "Customer", text |-> QuestionText]>>]>>] }

Next ==
    \/ SdkLoaded
    \/ SdkLoadFailed
    \/ starts < MaxStarts /\ StartRecording
    \/ \E i \in 1..Len(tasks) : MediaDenied(i)
    \/ \E i \in 1..Len(tasks) : MediaGrantedNoSdk(i)
    \/ \E i \in 1..Len(tasks) : MediaGrantedConfigThrows(i)
    \/ \E i \in 1..Len(tasks) : MediaGranted(i)
    \/ \E i \in 1..Len(tasks) : AzureStarted(i)
    \/ \E i \in 1..Len(tasks) : AzureStartRejected(i)
    \/ DataAvailable
    \/ /\ events < MaxEvents
       /\ \E u \in Utterances, t \in (clock + 1)..MaxTime :
             \E d \in 1..t : Transcribed(u.speakerId, u.text, t, d)
    \/ \E call \in pending, outcome \in AnnotationOutcomes : AnnotateParsed(call, outcome)
    \/ \E call \in pending : AnnotateMalformed(call)
    \/ \E call \in pending : AnnotateApiError(call)
    \/ stops < MaxStops /\ StopRecording
    \/ (isManuallyStopping \/ stops < MaxStops) /\ SessionStopped
    \/ \E withError \in BOOLEAN : Canceled(withError)
    \/ \E i \in 1..Len(tasks) : StopAzureDone(i)
    \/ \E i \in 1..Len(tasks) : GraceElapsed(i)
    \/ \E i \in 1..Len(tasks) :
          \E response \in SessionResponses(tasks[i].segs) : CorrectParsed(i, response)
    \/ \E i \in 1..Len(tasks), how \in {"api_error", "parse_error"} : CorrectFailed(i, how)
    \/ \E i \in 1..Len(tasks) : AnalyzeParsed(i)
    \/ \E i \in 1..Len(tasks) : AnalyzeMalformed(i)
    \/ \E i \in 1..Len(tasks) : AnalyzeApiError(i)
    \/ \E i \in 1..Len(tasks) : UploadDone(i)
    \/ \E i \in 1..Len(tasks), blobStored \in BOOLEAN : UploadFailed(i, blobStored)
    \/ \E i \in 1..Len(tasks) : AddDocDone(i)
    \/ \E i \in 1..Len(tasks) : AddDocFailed(i)
    \/ Reset

Spec == Init /\ [][Next]_vars

\* ====================================== two sessions and two stop signals
\* The hook driven through up to MaxSessions starts and MaxSignals stops (a
\* click on Stop, or the provider's session-stopped signal) by a signed-in
\* user, with one utterance and every call succeeding, so that the callbacks
\* of one session can meet the next one.  The hook is back in IDLE, where a
\* start is accepted, after reset and after the provider's canceled signal.
InitRace == Init /\ currentUser

RaceOutcome == [emotion |-> "joy", sentiment |-> "positive", feedback |-> "Ask an open question"]

NextRace ==
    \/ SdkLoaded
    \/ starts < MaxSessions /\ StartRecording
    \/ \E i \in 1..Len(tasks) : MediaGranted(i)
    \/ \E i \in 1..Len(tasks) : AzureStarted(i)
    \/ /\ events < MaxRaceEvents
       /\ clock < MaxTime
       /\ Transcribed("Guest-1", MixedText, clock + 1, 1)
    \/ \E call \in pending : AnnotateParsed(call, RaceOutcome)
    \/ stops < MaxSignals /\ StopRecording
    \/ (isManuallyStopping \/ stops < MaxSignals) /\ SessionStopped
    \/ \E withError \in BOOLEAN : Canceled(withError)
    \/ \E i \in 1..Len(tasks) : StopAzureDone(i)
    \/ \E i \in 1..Len(tasks) : GraceElapsed(i)
    \/ \E i \in 1..Len(tasks) : CorrectParsed(i, NoResponse)
    \/ \E i \in 1..Len(tasks) : AnalyzeParsed(i)
    \/ \E i \in 1..Len(tasks) : UploadDone(i)
    \/ \E i \in 1..Len(tasks) : AddDocDone(i)
    \/ Reset

SpecRace == InitRace /\ [][NextRace]_vars

\* ===================================================== the file-replay hook
\* useFileUploadSalesCoach is a second hook with its own recordingState,
\* error, SDK loading flag, azureSegmentsRef and stores of the same names; in
\* SpecFile the variables of those names are its state, starts counts the
\* uploads accepted, and the variables only the live hook has stay as Init
\* leaves them.
liveHook == <<transcript, realtimeFeedback, azureTranscriberRef, geminiModelRef,
              mediaRecorderRef, audioChunksRef, isManuallyStopping,
              geminiSegmentsRef, combinedTranscriptRef, clock, pending, stops>>

\* The files offered: what kind of file, and how many 8192-byte chunks its
\* WAV form has
Files ==
    { [kind |-> "audio", chunks |-> n] : n \in 1..MaxFileChunks }
    \cup { [kind |-> "text", chunks |-> 1], [kind |-> "huge", chunks |-> 1] }

InvalidTypeError == "Invalid file type. Please upload an audio file (MP3, WAV, M4A, etc.)"
TooLargeError == "File is too large for processing. Maximum size is 25MB."
SdkLoadingError == "Azure Speech SDK is still loading. Please wait..."
FileSdkLoadError == "Azure Speech SDK failed to load. Check your internet connection."
FileSdkMissingError == "Azure Speech SDK not loaded"
ConvertError == "Analysis failed: Failed to convert audio"
FileAzureStartError == "Analysis failed: Azure processing failed"
FileAzureError == "Analysis failed: Azure transcription error"
NoSpeechError == "Analysis failed: No speech detected in the audio file. Please check the audio quality and try again."
GeminiApiError == "Analysis failed: Gemini request failed"
GeminiParseError == "Analysis failed: Failed to parse AI analysis response"

\* What the one analysis call may answer when its JSON parses: with every
\* field, or with none
FileAnalyses ==
    { [segmentAnalysis |-> <<[index |-> 0, emotion |-> "engaged", sentiment |-> "positive"]>>,
       overallAnalysis |-> "Comprehensive summary",
       strengths |-> <<"Strength 1">>,
       opportunities |-> <<"Opportunity 1">>,
       metrics |-> "reported"],
      [segmentAnalysis |-> <<>>,
       overallAnalysis |-> "",
       strengths |-> <<>>,
       opportunities |-> <<>>,
       metrics |-> Undefined] }

DefaultStats == "defaults"
DefaultOverall == "Analysis completed successfully"

\* A suspended uploadAndAnalyzeFile: the upload it belongs to (session, not
\* program state), where it waits, its file, the chunks pushed so far, the
\* segments array of processAudioWithAzure and later the enriched segments,
\* the parsed analysis and the document handed to addDoc.
FileTask(session, pc, file, sent, segs, analysis, doc) ==
    [session |-> session, pc |-> pc, file |-> file, sent |-> sent,
     segs |-> segs, analysis |-> analysis, doc |-> doc]

\* Math.min(60, Math.floor(40 + (bytesSent / length) * 20)) after k of n chunks
ChunkProgress(k, n) == Min(60, 40 + (20 * k) \div n)

\* `Speaker ${String.fromCharCode(65 + count)}`
SpeakerLetter(count) ==
    CASE count = 0 -> "Speaker A"
      [] count = 1 -> "Speaker B"
      [] OTHER -> "Speaker C"

\* getSpeakerName: the name held for the id, or the next letter
GetSpeakerName(registry, speakerId) ==
    LET hits == { k \in 1..Len(registry) : registry[k] = speakerId }
    IN  IF hits # {} THEN SpeakerLetter(FirstIndex(hits) - 1)
        ELSE SpeakerLetter(Len(registry))

\* segments.map(...) of analyzeSegmentsWithGemini: emotion and sentiment of
\* the entry with the segment's index, or neutral
EnrichSegments(segs, analysis) ==
    [idx \in 1..Len(segs) |->
        LET hits == { k \in 1..Len(analysis.segmentAnalysis) :
                         analysis.segmentAnalysis[k].index = idx - 1 }
        IN  [speaker |-> segs[idx].speakerId,
             text |-> segs[idx].text,
             emotion |-> IF hits = {} THEN "neutral"
                         ELSE analysis.segmentAnalysis[FirstIndex(hits)].emotion,
             sentiment |-> IF hits = {} THEN "neutral"
                           ELSE analysis.segmentAnalysis[FirstIndex(hits)].sentiment,
             start |-> segs[idx].start,
             end |-> segs[idx].end]]

\* The coaching cards of saveCompleteAnalysisToFirebase
FileCoachingCards(analysis) ==
    LET cards == [k \in 1..Min(3, Len(analysis.strengths)) |->
                     [tag |-> "STRENGTH", text |-> analysis.strengths[k]]]
                 \o [k \in 1..Min(3, Len(analysis.opportunities)) |->
                        [tag |-> "OPPORTUNITY", text |-> analysis.opportunities[k]]]
    IN  IF Len(cards) > 0 THEN cards ELSE <<DefaultCard>>

\* script.onerror, or script.onload without the global
FileSdkLoadFailed ==
    /\ sdk = "loading"
    /\ sdk' = "failed"
    /\ error' = FileSdkLoadError
    /\ UNCHANGED <<recordingState, azureSegmentsRef, tasks, currentUser, store,
                   starts, events, fileHook, liveHook>>

\* uploadAndAnalyzeFile returning at one of its validations.  The upload
\* button is rendered in the IDLE view.
RejectFile(file) ==
    /\ recordingState = IDLE
    /\ \/ file.kind = "text" /\ error' = InvalidTypeError
       \/ file.kind = "huge" /\ error' = TooLargeError
       \/ file.kind = "audio" /\ sdk = "loading" /\ error' = SdkLoadingError
       \/ file.kind = "audio" /\ sdk = "failed" /\ error' = FileSdkMissingError
    /\ UNCHANGED <<recordingState, sdk, azureSegmentsRef, tasks, currentUser,
                   store, starts, events, fileHook, liveHook>>

\* uploadAndAnalyzeFile of a file that passes, into processAudioWithAzure up
\* to the await of convertToWav
UploadAndAnalyzeFile(file) ==
    /\ recordingState = IDLE
    /\ file.kind = "audio"
    /\ sdk = "ready"
    /\ starts' = starts + 1
    /\ recordingState' = RECORDING
    /\ error' = Null
    /\ currentFile' = file
    /\ transcriptSegmentsRef' = <<>>
    /\ speakerNamesRef' = <<>>
    /\ azureSegmentsRef' = <<>>
    /\ uploadProgress' = 20
    /\ tasks' = Append(tasks, FileTask(starts + 1, "convert", file, 0, <<>>, Null, <<>>))
    /\ UNCHANGED <<sdk, currentUser, store, events, liveHook>>

\* The catch of uploadAndAnalyzeFile
FailPipeline(i, message) ==
    /\ error' = message
    /\ recordingState' = IDLE
    /\ uploadProgress' = 0
    /\ tasks' = RemoveAt(tasks, i)

\* convertToWav rejects
ConvertFailed(i) ==
    /\ AtPc(i, "convert")
    /\ FailPipeline(i, ConvertError)
    /\ UNCHANGED <<sdk, azureSegmentsRef, currentUser, store, starts, events,
                   currentFile, transcriptSegmentsRef, speakerNamesRef, liveHook>>

\* convertToWav resolves; up to the await of startTranscribingAsync
ConvertDone(i) ==
    /\ AtPc(i, "convert")
    /\ uploadProgress' = 30
    /\ tasks' = [tasks EXCEPT ![i].pc = "azureStart"]
    /\ UNCHANGED <<recordingState, error, sdk, azureSegmentsRef, currentUser,
                   store, starts, events, currentFile, transcriptSegmentsRef,
                   speakerNamesRef, liveHook>>

\* startTranscribingAsync rejects
FileAzureStartRejected(i) ==
    /\ AtPc(i, "azureStart")
    /\ FailPipeline(i, FileAzureStartError)
    /\ UNCHANGED <<sdk, azureSegmentsRef, currentUser, store, starts, events,
                   currentFile, transcriptSegmentsRef, speakerNamesRef, liveHook>>

\* startTranscribingAsync resolves: progress 40, then the first sendChunk
FileAzureStarted(i) ==
    /\ AtPc(i, "azureStart")
    /\ uploadProgress' = ChunkProgress(1, tasks[i].file.chunks)
    /\ tasks' = [tasks EXCEPT ![i] = [@ EXCEPT !.pc = "stream", !.sent = 1]]
    /\ UNCHANGED <<recordingState, error, sdk, azureSegmentsRef, currentUser,
                   store, starts, events, currentFile, transcriptSegmentsRef,
                   speakerNamesRef, liveHook>>

\* setTimeout(sendChunk, 0) fires while chunks are left
SendChunk(i) ==
    /\ AtPc(i, "stream")
    /\ tasks[i].sent < tasks[i].file.chunks
    /\ uploadProgress' = ChunkProgress(tasks[i].sent + 1, tasks[i].file.chunks)
    /\ tasks' = [tasks EXCEPT ![i].sent = @ + 1]
    /\ UNCHANGED <<recordingState, error, sdk, azureSegmentsRef, currentUser,
                   store, starts, events, currentFile, transcriptSegmentsRef,
                   speakerNamesRef, liveHook>>

\* transcriber.transcribed of the file's transcriber: an utterance of one
\* second following the last one
FileTranscribed(i, speakerId, text) ==
    /\ AtPc(i, "stream")
    /\ events' = events + 1
    /\ LET offset == Len(tasks[i].segs) * TicksPerSecond
           segment == [speakerId |-> GetSpeakerName(speakerNamesRef, speakerId),
                       text |-> text,
                       start |-> offset,
                       end |-> offset + TicksPerSecond]
       IN  tasks' = [tasks EXCEPT ![i].segs = Append(@, segment)]
    /\ speakerNamesRef' =
          IF \E k \in 1..Len(speakerNamesRef) : speakerNamesRef[k] = speakerId
          THEN speakerNamesRef
          ELSE Append(speakerNamesRef, speakerId)
    /\ UNCHANGED <<recordingState, error, sdk, azureSegmentsRef, currentUser,
                   store, starts, uploadProgress, currentFile,
                   transcriptSegmentsRef, liveHook>>

\* processAudioWithAzure resolves with its segments: uploadAndAnalyzeFile on
\* into analyzeSegmentsWithGemini up to the await of generateContent
AzureCompleted(i) ==
    IF Len(tasks[i].segs) = 0
    THEN /\ FailPipeline(i, NoSpeechError)
         /\ UNCHANGED azureSegmentsRef
    ELSE /\ azureSegmentsRef' = tasks[i].segs
         /\ uploadProgress' = 70
         /\ tasks' = [tasks EXCEPT ![i].pc = "gemini"]
         /\ UNCHANGED <<recordingState, error>>

\* transcriber.sessionStopped
FileSessionStopped(i) ==
    /\ AtPc(i, "stream")
    /\ AzureCompleted(i)
    /\ UNCHANGED <<sdk, currentUser, store, starts, events, currentFile,
                   transcriptSegmentsRef, speakerNamesRef, liveHook>>

\* transcriber.canceled: with reason Error the promise rejects, with any
\* other reason it resolves with the segments so far
FileCanceled(i, withError) ==
    /\ AtPc(i, "stream")
    /\ IF withError
       THEN FailPipeline(i, FileAzureError) /\ UNCHANGED azureSegmentsRef
       ELSE AzureCompleted(i)
    /\ UNCHANGED <<sdk, currentUser, store, starts, events, currentFile,
                   transcriptSegmentsRef, speakerNamesRef, liveHook>>

\* generateContent rejects, or resolves with text JSON.parse rejects
GeminiFileFailed(i, how) ==
    /\ AtPc(i, "gemini")
    /\ FailPipeline(i, IF how = "api_error" THEN GeminiApiError ELSE GeminiParseError)
    /\ UNCHANGED <<sdk, azureSegmentsRef, currentUser, store, starts, events,
                   currentFile, transcriptSegmentsRef, speakerNamesRef, liveHook>>

\* generateContent resolves with JSON that parses: the segments are enriched
\* and saveCompleteAnalysisToFirebase runs up to the await of uploadBytes;
\* without a signed-in user it throws into its own catch and returns.
GeminiFileParsed(i, analysis) ==
    /\ AtPc(i, "gemini")
    /\ LET enriched == EnrichSegments(azureSegmentsRef, analysis)
       IN  /\ transcriptSegmentsRef' = enriched
           /\ IF currentUser
              THEN /\ uploadProgress' = 90
                   /\ tasks' = [tasks EXCEPT ![i] =
                                   [@ EXCEPT !.pc = "upload", !.segs = enriched,
                                             !.analysis = analysis]]
                   /\ error' = error
              ELSE /\ uploadProgress' = 0
                   /\ tasks' = RemoveAt(tasks, i)
                   /\ error' = SaveError
    /\ UNCHANGED <<recordingState, sdk, azureSegmentsRef, currentUser, store,
                   starts, events, currentFile, speakerNamesRef, liveHook>>

\* uploadBytes or getDownloadURL rejects: the catch of
\* saveCompleteAnalysisToFirebase
FileUploadFailed(i, blobStored) ==
    /\ AtPc(i, "upload")
    /\ storedAudio' = IF blobStored THEN storedAudio + 1 ELSE storedAudio
    /\ error' = SaveError
    /\ uploadProgress' = 0
    /\ tasks' = RemoveAt(tasks, i)
    /\ UNCHANGED <<recordingState, sdk, azureSegmentsRef, currentUser,
                   recordings, starts, events, currentFile,
                   transcriptSegmentsRef, speakerNamesRef, liveHook>>

\* uploadBytes and getDownloadURL resolve; the document is built, its
\* statistics being those of the analysis or the defaults, and handed to
\* addDoc.  Its session field is not written by the program.
FileUploadDone(i) ==
    /\ AtPc(i, "upload")
    /\ storedAudio' = storedAudio + 1
    /\ LET t == tasks[i]
           doc == [session |-> t.session,
                   transcriptSegments |-> t.segs,
                   sentimentGraph |-> GenerateSentimentGraph(t.segs),
                   geminiFullAnalysis |-> IF t.analysis.overallAnalysis = ""
                                          THEN DefaultOverall
                                          ELSE t.analysis.overallAnalysis,
                   coachingCard |-> FileCoachingCards(t.analysis),
                   recordingStats |-> IF t.analysis.metrics = Undefined
                                      THEN DefaultStats ELSE t.analysis.metrics,
                   speakers |-> speakerNamesRef]
       IN  tasks' = [tasks EXCEPT ![i] = [t EXCEPT !.pc = "addDoc", !.doc = <<doc>>]]
    /\ UNCHANGED <<recordingState, error, sdk, azureSegmentsRef, currentUser,
                   recordings, starts, events, fileHook, liveHook>>

\* addDoc rejects
FileAddDocFailed(i) ==
    /\ AtPc(i, "addDoc")
    /\ error' = SaveError
    /\ uploadProgress' = 0
    /\ tasks' = RemoveAt(tasks, i)
    /\ UNCHANGED <<recordingState, sdk, azureSegmentsRef, currentUser, store,
                   starts, events, currentFile, transcriptSegmentsRef,
                   speakerNamesRef, liveHook>>

\* addDoc resolves
FileAddDocDone(i) ==
    /\ AtPc(i, "addDoc")
    /\ recordings' = Append(recordings, tasks[i].doc[1])
    /\ uploadProgress' = 100
    /\ recordingState' = DONE
    /\ tasks' = RemoveAt(tasks, i)
    /\ UNCHANGED <<error, sdk, azureSegmentsRef, currentUser, storedAudio,
                   starts, events, currentFile, transcriptSegmentsRef,
                   speakerNamesRef, liveHook>>

\* reset of the file hook; the model takes no such step when it would
\* change nothing.
FileReset ==
    /\ <<recordingState, error, uploadProgress, currentFile,
         transcriptSegmentsRef, speakerNamesRef, azureSegmentsRef>>
          # <<IDLE, Null, 0, Null, <<>>, <<>>, <<>>>>
    /\ currentFile' = Null
    /\ transcriptSegmentsRef' = <<>>
    /\ speakerNamesRef' = <<>>
    /\ azureSegmentsRef' = <<>>
    /\ recordingState' = IDLE
    /\ error' = Null
    /\ uploadProgress' = 0
    /\ UNCHANGED <<sdk, tasks, currentUser, store, starts, events, liveHook>>

NextFile ==
    \/ SdkLoaded
    \/ FileSdkLoadFailed
    \/ \E file \in Files : RejectFile(file)
    \/ starts < MaxUploads /\ \E file \in Files : UploadAndAnalyzeFile(file)
    \/ \E i \in 1..Len(tasks) : ConvertFailed(i)
    \/ \E i \in 1..Len(tasks) : ConvertDone(i)
    \/ \E i \in 1..Len(tasks) : FileAzureStartRejected(i)
    \/ \E i \in 1..Len(tasks) : FileAzureStarted(i)
    \/ \E i \in 1..Len(tasks) : SendChunk(i)
    \/ /\ events < MaxFileEvents
       /\ \E i \in 1..Len(tasks), u \in Utterances : FileTranscribed(i, u.speakerId, u.text)
    \/ \E i \in 1..Len(tasks) : FileSessionStopped(i)
    \/ \E i \in 1..Len(tasks), withError \in BOOLEAN : FileCanceled(i, withError)
    \/ \E i \in 1..Len(tasks), how \in {"api_error", "parse_error"} : GeminiFileFailed(i, how)
    \/ \E i \in 1..Len(tasks), analysis \in FileAnalyses : GeminiFileParsed(i, analysis)
    \/ \E i \in 1..Len(tasks), blobStored \in BOOLEAN : FileUploadFailed(i, blobStored)
    \/ \E i \in 1..Len(tasks) : FileUploadDone(i)
    \/ \E i \in 1..Len(tasks) : FileAddDocFailed(i)
    \/ \E i \in 1..Len(tasks) : FileAddDocDone(i)
    \/ FileReset

SpecFile == Init /\ [][NextFile]_vars

\* ============================================== utterances that overlap
\* One session of a signed-in user in which every call succeeds, with
\* recognition times up to MaxClock seconds: an utterance reported at second
\* t may have lasted any d <= t seconds, so a long utterance of one speaker
\* can be reported after a short one of the other that began later.
NextOrder ==
    \/ SdkLoaded
    \/ starts < MaxStarts /\ StartRecording
    \/ \E i \in 1..Len(tasks) : MediaGranted(i)
    \/ \E i \in 1..Len(tasks) : AzureStarted(i)
    \/ /\ events < MaxEvents
       /\ \E u \in Utterances, t \in (clock + 1)..MaxClock :
             \E d \in 1..t : Transcribed(u.speakerId, u.text, t, d)
    \/ \E call \in pending : AnnotateParsed(call, RaceOutcome)
    \/ stops < MaxStops /\ StopRecording
    \/ \E i \in 1..Len(tasks) : StopAzureDone(i)
    \/ \E i \in 1..Len(tasks) : GraceElapsed(i)
    \/ \E i \in 1..Len(tasks) :
          \E response \in SessionResponses(tasks[i].segs) : CorrectParsed(i, response)
    \/ \E i \in 1..Len(tasks) : AnalyzeParsed(i)
    \/ \E i \in 1..Len(tasks) : UploadDone(i)
    \/ \E i \in 1..Len(tasks) : AddDocDone(i)

SpecOrder == InitRace /\ [][NextOrder]_vars

\* ================================================== a long run of feedback
\* Up to MaxFeedEvents utterances in one session, at most MaxInFlight
\* annotate calls in flight at a time; every annotation parses
\* and carries one of two feedback strings or none.  An annotation without
\* feedback is the neutral one, so the annotations tell how many feedback
\* strings have arrived.
FeedOutcomes ==
    { [emotion |-> "joy", sentiment |-> "positive", feedback |-> "Ask an open question"],
      [emotion |-> "nervousness", sentiment |-> "negative", feedback |-> "Slow down"],
      [emotion |-> "neutral", sentiment |-> "neutral", feedback |-> ""] }

NextFeed ==
    \/ SdkLoaded
    \/ starts < MaxStarts /\ StartRecording
    \/ \E i \in 1..Len(tasks) : MediaGranted(i)
    \/ \E i \in 1..Len(tasks) : AzureStarted(i)
    \/ /\ events < MaxFeedEvents
       /\ Cardinality(pending) < MaxInFlight
       /\ Transcribed("Guest-1", MixedText, clock + 1, 1)
    \/ \E call \in pending, outcome \in FeedOutcomes : AnnotateParsed(call, outcome)
    \/ \E call \in pending : AnnotateMalformed(call)
    \/ Reset

SpecFeed == InitRace /\ [][NextFeed]_vars

\* ================================================= the metrics of a session
\* calculateMetrics and generateSentimentGraph read nothing but
\* combinedTranscriptRef.  SpecMetrics starts where the stop pipeline holds a
\* transcript and goes on to the stored record: from the pending correction
\* call (which answers that nothing is to change, so that every speaker is
\* mapped to a role, or fails, so that the speakers stay as the transcriber
\* named them) or, for the empty transcript, from the grace delay.  The transcripts drawn are all those of
\* up to MaxMetricSegs segments, one after the other, of up to three speakers,
\* lasting 1 to MaxSegSeconds seconds, with any sentiment or none, and the
\* ten alternating 5 s segments of two speakers; among them are transcripts
\* the live merge does not produce, the functions being defined on all.
MetricSpeakers == {"Guest-1", "Guest-2", "Guest-3"}
Sentiments == {"positive", "neutral", "negative"}

TextOf(speaker) ==
    CASE speaker = "Guest-1" -> MixedText
      [] speaker = "Guest-2" -> ShortText
      [] speaker = "Guest-3" -> QuestionText

EmotionOf(sentiment) ==
    CASE sentiment = "positive" -> "joy"
      [] sentiment = "neutral" -> "neutral"
      [] sentiment = "negative" -> "anger"
      [] OTHER -> Undefined

\* The transcript of segments by sp[j], lasting d[j] seconds, with sentiment
\* se[j]
SegmentsOf(sp, d, se) ==
    [j \in 1..Len(sp) |->
        [speaker |-> sp[j], text |-> TextOf(sp[j]),
         emotion |-> EmotionOf(se[j]), sentiment |-> se[j],
         start |-> SumSeq(SubSeq(d, 1, j - 1)) * TicksPerSecond,
         end |-> SumSeq(SubSeq(d, 1, j)) * TicksPerSecond]]

ScenarioTranscript ==
    SegmentsOf([j \in 1..ScenarioSegs |-> IF j % 2 = 1 THEN "Guest-1" ELSE "Guest-2"],
               [j \in 1..ScenarioSegs |-> ScenarioSeconds],
               [j \in 1..ScenarioSegs |-> IF j % 2 = 1 THEN "positive" ELSE "neutral"])

MetricTranscripts ==
    {ScenarioTranscript} \cup
    UNION { { SegmentsOf(sp, d, se) :
                 sp \in [1..n -> MetricSpeakers], d \in [1..n -> 1..MaxSegSeconds],
                 se \in [1..n -> Sentiments \cup {Undefined}] } : n \in 0..MaxMetricSegs }

InitWith(transcripts) ==
    /\ recordingState = ANALYZING
    /\ realtimeFeedback = <<>>
    /\ error = Null
    /\ sdk = "ready"
    /\ azureTranscriberRef = "stopped"
    /\ geminiModelRef = TRUE
    /\ mediaRecorderRef = "inactive"
    /\ audioChunksRef = 0
    /\ isManuallyStopping = TRUE
    /\ combinedTranscriptRef \in transcripts
    /\ azureSegmentsRef =
          [j \in 1..Len(combinedTranscriptRef) |->
              [speakerId |-> combinedTranscriptRef[j].speaker,
               text |-> combinedTranscriptRef[j].text,
               start |-> combinedTranscriptRef[j].start,
               end |-> combinedTranscriptRef[j].end]]
    /\ geminiSegmentsRef = <<>>
    /\ clock = TotalDuration(combinedTranscriptRef) \div TicksPerSecond
    /\ events = Len(combinedTranscriptRef)
    /\ transcript = DisplayText(combinedTranscriptRef)
    /\ pending = {}
    /\ tasks = IF Len(combinedTranscriptRef) = 0
               THEN <<NewTaskOf(1, "grace")>>
               ELSE <<Task(1, "correct", combinedTranscriptRef, "none", "", <<>>,
                           <<>>, <<>>)>>
    /\ currentUser = TRUE
    /\ storedAudio = 0
    /\ recordings = <<>>
    /\ starts = 1
    /\ stops = 1
    /\ uploadProgress = 0
    /\ currentFile = Null
    /\ transcriptSegmentsRef = <<>>
    /\ speakerNamesRef = <<>>

InitMetrics == InitWith(MetricTranscripts)

NextMetrics ==
    \/ \E i \in 1..Len(tasks) : GraceElapsed(i)
    \/ \E i \in 1..Len(tasks) : CorrectParsed(i, NoResponse)
    \/ \E i \in 1..Len(tasks) : CorrectFailed(i, "api_error")
    \/ \E i \in 1..Len(tasks) : AnalyzeParsed(i)
    \/ \E i \in 1..Len(tasks) : UploadDone(i)
    \/ \E i \in 1..Len(tasks) : AddDocDone(i)

SpecMetrics == InitMetrics /\ [][NextMetrics]_vars

\* ================================================ the keywords of a session
\* extractKeywords reads the texts of the transcript the correction pass
\* left.  SpecKeywords starts like SpecMetrics, with every transcript of up
\* to MaxKeywordSegs one-second segments over the texts below, and lets the
\* full-analysis call answer, answer unparsably or fail.
KeywordTexts == {ShortText, MixedText, OfferText, KeywordText, ProtoText, LongText}

KeywordTranscripts ==
    UNION { { [j \in 1..n |->
                 [speaker |-> IF j % 2 = 1 THEN "Guest-1" ELSE "Guest-2",
                  text |-> tx[j], emotion |-> Undefined, sentiment |-> Undefined,
                  start |-> (j - 1) * TicksPerSecond, end |-> j * TicksPerSecond]] :
              tx \in [1..n -> KeywordTexts] } : n \in 0..MaxKeywordSegs }

InitKeywords == InitWith(KeywordTranscripts)

NextKeywords ==
    \/ \E i \in 1..Len(tasks) : GraceElapsed(i)
    \/ \E i \in 1..Len(tasks) : CorrectParsed(i, NoResponse)
    \/ \E i \in 1..Len(tasks) : AnalyzeParsed(i)
    \/ \E i \in 1..Len(tasks) : AnalyzeMalformed(i)
    \/ \E i \in 1..Len(tasks) : AnalyzeApiError(i)
    \/ \E i \in 1..Len(tasks) : UploadDone(i)
    \/ \E i \in 1..Len(tasks) : AddDocDone(i)

SpecKeywords == InitKeywords /\ [][NextKeywords]_vars

\* ============================================================== properties
\* The combined transcript holds exactly the recognised events, in order
SameEvents(combined, azure) ==
    /\ Len(combined) = Len(azure)
    /\ \A j \in 1..Len(azure) :
          /\ combined[j].speaker = azure[j].speakerId
          /\ combined[j].text = azure[j].text
          /\ combined[j].start = azure[j].start
          /\ combined[j].end = azure[j].end

\* The annotate call was issued for the segment now at position call.id
HasOwnSegment(call) ==
    /\ Len(combinedTranscriptRef) = Len(azureSegmentsRef)
    /\ call.id \in 1..Len(azureSegmentsRef)
    /\ azureSegmentsRef[call.id].end = call.timestamp
    /\ azureSegmentsRef[call.id].text = call.text

\* The annotation g was returned for a segment that starts within the
\* tolerance of g's timestamp
WithinOwnTolerance(g) ==
    \E j \in 1..Len(azureSegmentsRef) :
        /\ azureSegmentsRef[j].end = g.timestamp
        /\ azureSegmentsRef[j].text = g.text
        /\ Abs(g.timestamp - azureSegmentsRef[j].start) < Tolerance

Permute(s, p) == [j \in 1..Len(s) |-> s[p[j]]]

\* C1 (as stated): once every event has its annotation, each within the
\* tolerance of its own event, the merged transcript is the same whatever the
\* order in which the annotations arrived: merging the recognised events with
\* any reordering of the annotation buffer gives the transcript held.
C1_Original ==
    ( /\ recordingState = RECORDING
      /\ pending = {}
      /\ Len(geminiSegmentsRef) = Len(azureSegmentsRef)
      /\ combinedTranscriptRef = MergeSegments(azureSegmentsRef, geminiSegmentsRef)
      /\ \A k \in 1..Len(geminiSegmentsRef) : WithinOwnTolerance(geminiSegmentsRef[k]) )
    => \A p \in Permutations(1..Len(geminiSegmentsRef)) :
          MergeSegments(azureSegmentsRef, Permute(geminiSegmentsRef, p))
             = combinedTranscriptRef

\* C2 (as stated): an annotation that arrives after its event's segment is in
\* the transcript is attached to that segment, which keeps its position,
\* speaker, text, start and end, and no other segment moves.
C2_Original ==
    [][ \A call \in pending, outcome \in AnnotationOutcomes :
          ( /\ recordingState = RECORDING
            /\ HasOwnSegment(call)
            /\ AnnotateParsed(call, outcome) )
          => /\ SameEvents(combinedTranscriptRef', azureSegmentsRef)
             /\ combinedTranscriptRef'[call.id] =
                   [combinedTranscriptRef[call.id] EXCEPT
                       !.emotion = outcome.emotion,
                       !.sentiment = outcome.sentiment] ]_vars

\* A step that ran mergeSegments from the transcribed handler or from an
\* annotate call that produced an annotation
MergeStep ==
    \/ events' = events + 1
    \/ Len(geminiSegmentsRef') = Len(geminiSegmentsRef) + 1

\* C3: while RECORDING, every handled transcript event adds exactly one
\* segment, and after every merge the combined transcript has exactly one
\* segment per recognised event, in the order of emission, whether or not any
\* annotate call has resolved.
C3_OneSegmentPerEvent ==
    [][ (recordingState = RECORDING /\ MergeStep)
        => /\ SameEvents(combinedTranscriptRef', azureSegmentsRef')
           /\ events' = events + 1 =>
                 /\ Len(combinedTranscriptRef') = Len(azureSegmentsRef) + 1
                 /\ SubSeq(azureSegmentsRef', 1, Len(azureSegmentsRef))
                       = azureSegmentsRef ]_vars

\* Two events are in the transcript while both their annotate calls are out
C3_Witness ==
    /\ recordingState = RECORDING
    /\ Len(combinedTranscriptRef) = 2
    /\ Cardinality(pending) = 2
    /\ geminiSegmentsRef = <<>>
    /\ SameEvents(combinedTranscriptRef, azureSegmentsRef)

AnnotateFailed(call) == AnnotateMalformed(call) \/ AnnotateApiError(call)

Parsed(gemini) == { k \in 1..Len(gemini) : gemini[k].emotion # Undefined }

C7_CorrectionFailureKeepsMerge ==
    [][ \A i \in 1..Len(tasks), how \in {"api_error", "parse_error"} :
          CorrectFailed(i, how)
          => /\ combinedTranscriptRef' = tasks[i].segs
             /\ transcript' = DisplayText(tasks[i].segs)
             /\ recordingState' = recordingState
             /\ IF FullTranscriptLen(tasks[i].segs) >= MinTranscriptLen
                THEN /\ Len(tasks') = Len(tasks)
                     /\ tasks'[i].pc = "analyze"
                     /\ tasks'[i].corr = how
                ELSE IF currentUser
                     THEN Len(tasks') = Len(tasks) /\ tasks'[i].pc = "upload"
                     ELSE error' = SaveError ]_vars

\* The correction call failed and the pipeline waits for the full analysis
\* with the transcript still the merge of the buffers, labels uncorrected
C7_Witness ==
    \E i \in 1..Len(tasks) :
        /\ tasks[i].corr \in {"api_error", "parse_error"}
        /\ tasks[i].pc = "analyze"
        /\ Len(combinedTranscriptRef) > 0
        /\ combinedTranscriptRef = MergeSegments(azureSegmentsRef, geminiSegmentsRef)
        /\ \E j \in 1..Len(combinedTranscriptRef) :
              combinedTranscriptRef[j].speaker \in SpeakerIds

\* The state changes the session is said to make
AllowedTransition(from, to) ==
    \/ to = IDLE
    \/ from = IDLE /\ to = RECORDING
    \/ from = RECORDING /\ to \in {TRANSCRIBING, ANALYZING}
    \/ from = TRANSCRIBING /\ to = ANALYZING
    \/ from = ANALYZING /\ to = DONE

\* C8 (as stated): the session state only moves forward along
\* IDLE, RECORDING, ANALYZING, DONE, or back to IDLE: DONE is entered only
\* from ANALYZING and RECORDING only from IDLE.
C8_Original ==
    [][ recordingState' # recordingState
        => AllowedTransition(recordingState, recordingState') ]_vars

FatalErrors == {StartError, SdkNotLoadedError, AzureStartError, RecognitionError, SaveError}

\* C9 (as stated): once a fatal failure has been surfaced and nothing of the
\* session is left running (no suspended pipeline, no call in flight), the
\* session is IDLE: it does not rest in RECORDING or ANALYZING.
C9_Original ==
    (error \in FatalErrors /\ tasks = <<>> /\ pending = {})
    => recordingState = IDLE

\* The pipeline of task t carries the output of a failed full analysis
Degraded(t) ==
    /\ t.pc \in {"upload", "addDoc"}
    /\ t.summary \in {RawAnalysisText, ApiErrorSummary}

\* C10: a failure of the full-analysis call (a rejection or an answer that
\* does not parse) does not change the session state; the pipeline goes on to
\* persistence with the placeholder coaching summary, no later step of it
\* returns the state to IDLE, and when the document is written the state
\* becomes DONE.
C10_AnalysisFailureStillSaves ==
    [][ \A i \in 1..Len(tasks) :
          /\ (AnalyzeMalformed(i) \/ AnalyzeApiError(i))
             => /\ recordingState' = recordingState
                /\ IF currentUser
                   THEN /\ Len(tasks') = Len(tasks)
                        /\ Degraded(tasks'[i])
                        /\ tasks'[i].pc = "upload"
                        /\ tasks'[i].cards \in {<<>>, <<DefaultCard>>}
                   ELSE error' = SaveError
          /\ (Degraded(tasks[i]) /\ UploadDone(i))
             => /\ recordingState' = recordingState
                /\ tasks'[i].doc[1].coachingCard = <<DefaultCard>>
                /\ tasks'[i].doc[1].geminiFullAnalysis = tasks[i].summary
          /\ (Degraded(tasks[i])
                /\ (AddDocFailed(i) \/ \E b \in BOOLEAN : UploadFailed(i, b)))
             => recordingState' = recordingState
          /\ (Degraded(tasks[i]) /\ AddDocDone(i))
             => /\ recordingState' = DONE
                /\ recordings' = Append(recordings, tasks[i].doc[1]) ]_vars

\* A session that went through ANALYZING is DONE with the placeholder
\* coaching summary in its document
C10_Witness ==
    /\ recordingState = DONE
    /\ \E r \in 1..Len(recordings) :
          /\ recordings[r].geminiFullAnalysis \in {RawAnalysisText, ApiErrorSummary}
          /\ recordings[r].coachingCard = <<DefaultCard>>
          /\ Len(recordings[r].transcriptSegments) > 0

\* C11 (as stated): the state is DONE only when, for the current session
\* (the latest start), the audio upload and the record write both succeeded,
\* that is, a record of that session is in the collection and a blob stored.
C11_Original ==
    recordingState = DONE
    => /\ storedAudio >= 1
       /\ \E k \in 1..Len(recordings) : recordings[k].session = starts

\* C12: reset, in whatever state it is called, leaves the state IDLE, the
\* error cleared, the event buffer, the annotation buffer, the combined
\* segments, the audio chunks, the transcript view and the feedback feed
\* empty, the transcriber released and the media recorder stopped.
C12_ResetClearsSession ==
    [][ Reset
        => /\ recordingState' = IDLE
           /\ error' = Null
           /\ azureSegmentsRef' = <<>>
           /\ geminiSegmentsRef' = <<>>
           /\ combinedTranscriptRef' = <<>>
           /\ audioChunksRef' = 0
           /\ transcript' = <<>>
           /\ realtimeFeedback' = <<>>
           /\ azureTranscriberRef' = "null"
           /\ mediaRecorderRef' # "recording"
           /\ ~isManuallyStopping' ]_vars

\* A session that was stopped has been reset while its pipeline was still
\* running: everything is cleared although events had been recognised
C12_Witness ==
    /\ stops = 1
    /\ events > 0
    /\ ~isManuallyStopping
    /\ tasks # <<>>
    /\ recordingState = IDLE
    /\ error = Null
    /\ buffers = <<<<>>, <<>>, <<>>>>
    /\ transcript = <<>>
    /\ realtimeFeedback = <<>>
    /\ audioChunksRef = 0
    /\ azureTranscriberRef = "null"
    /\ mediaRecorderRef = "inactive"

\* The session has been reset, or has been stopped and has made its final
\* merge
AnnotationIsLate ==
    \/ azureSegmentsRef = <<>>
    \/ /\ recordingState \in {ANALYZING, DONE}
       /\ \A i \in 1..Len(tasks) : tasks[i].pc \notin {"stopAzure", "grace"}

\* C13 (as stated): an annotate call that resolves after the reset, or after
\* the final merge of a stopped session, changes neither the annotation
\* buffer nor the segment sequence nor the transcript view nor the feedback
\* feed.
C13_Original ==
    [][ \A call \in pending :
          ( /\ AnnotationIsLate
            /\ \/ AnnotateMalformed(call)
               \/ AnnotateApiError(call)
               \/ \E outcome \in AnnotationOutcomes : AnnotateParsed(call, outcome) )
          => UNCHANGED <<geminiSegmentsRef, combinedTranscriptRef, transcript,
                         realtimeFeedback>> ]_vars

\* C14 (as stated): once the correction pass has given its output and until
\* the record is built, no annotate call that resolves changes the segment
\* sequence, which stays the output of the correction pass.
C14_Original ==
    [][ ( /\ \E i \in 1..Len(tasks) : tasks[i].pc \in {"analyze", "upload"}
          /\ \E call \in pending : pending' = pending \ {call} )
        => combinedTranscriptRef' = combinedTranscriptRef ]_vars

\* C15: a stop does not wait for annotate calls: with calls in flight, the
\* continuation after stopTranscribingAsync sets ANALYZING, the 2 s timer can
\* always fire, and when it fires the final merge is made from the buffers
\* as they then are, the calls being left in flight.
C15_StopDoesNotWait ==
    /\ [](\A i \in 1..Len(tasks) :
            /\ tasks[i].pc = "stopAzure" => ENABLED StopAzureDone(i)
            /\ tasks[i].pc = "grace" => ENABLED GraceElapsed(i))
    /\ [][ \A i \in 1..Len(tasks) :
             /\ StopAzureDone(i)
                => (recordingState' = ANALYZING /\ tasks'[i].pc = "grace"
                    /\ pending' = pending)
             /\ GraceElapsed(i)
                => /\ pending' = pending
                   /\ recordingState' = recordingState
                   /\ LET merged == MergeSegments(azureSegmentsRef, geminiSegmentsRef)
                      IN  /\ combinedTranscriptRef' = merged
                          /\ Len(merged) > 0
                             => (tasks'[i].pc = "correct" /\ tasks'[i].segs = merged) ]_vars

\* The session is ANALYZING and its final merge is made while an annotate
\* call is still out
C15_Witness ==
    /\ recordingState = ANALYZING
    /\ pending # {}
    /\ Len(combinedTranscriptRef) > 0
    /\ \E i \in 1..Len(tasks) :
          tasks[i].pc = "correct" /\ tasks[i].segs = combinedTranscriptRef

\* C19 (as stated): once no persistence step is under way, the audio blobs
\* stored are as many as the records written: never a blob without its record
\* or a record without its blob.
C19_Original ==
    (\A i \in 1..Len(tasks) : tasks[i].pc \notin {"upload", "addDoc"})
    => storedAudio = Len(recordings)

\* The task has entered the correction pass (which returns at once for an
\* empty transcript) or is past it
PastGrace(t) == t.pc \in {"correct", "analyze", "upload", "addDoc"}

\* C16 (as stated): at most one session is active, so nothing called during
\* an earlier session writes into the buffers of the session now open: an
\* annotate call of an earlier session that resolves, and the final merge or
\* the correction of an earlier session's stop, leave the annotation buffer
\* and the segment sequence as they are.
C16_Original ==
    [][ /\ \A call \in pending :
             (call.session # starts /\ AnnotateParsed(call, RaceOutcome))
             => UNCHANGED <<geminiSegmentsRef, combinedTranscriptRef>>
        /\ \A i \in 1..Len(tasks) :
             ( /\ tasks[i].session # starts
               /\ (GraceElapsed(i) \/ CorrectParsed(i, NoResponse)) )
             => UNCHANGED combinedTranscriptRef ]_vars

\* C17 (as stated): in each session the correction pass runs once, whatever
\* the stop signals: no two stop pipelines of one session are in or past the
\* pass, and none is once a record of that session is written.
C17_Original ==
    /\ \A i, j \in 1..Len(tasks) :
          (i # j /\ PastGrace(tasks[i]) /\ PastGrace(tasks[j]))
          => tasks[i].session # tasks[j].session
    /\ \A i \in 1..Len(tasks), k \in 1..Len(recordings) :
          PastGrace(tasks[i]) => recordings[k].session # tasks[i].session

\* C18 (as stated): at most one analysis record is written per session.
C18_Original ==
    \A k, l \in 1..Len(recordings) :
       k # l => recordings[k].session # recordings[l].session

\* C20 (as stated): the metrics are computed and the analysis record is
\* built and written only once the session is ANALYZING, never while it is
\* IDLE or RECORDING, in the live hook and in the file-replay hook: every
\* step in which an upload resolves (the metrics are then taken and the
\* document built) or a record is written is taken in state ANALYZING.
C20_Original ==
    [][ ( \/ recordings' # recordings
          \/ \E i \in 1..Len(tasks) :
                /\ tasks[i].pc = "upload"
                /\ Len(tasks') = Len(tasks)
                /\ tasks'[i].pc = "addDoc" )
        => recordingState = ANALYZING ]_vars

\* The pcs of a stop pipeline: from the await of stopTranscribingAsync to the
\* await of addDoc
StopPipelinePcs == {"stopAzure", "grace", "correct", "analyze", "upload", "addDoc"}

\* C21 (as stated): a cancellation with an error reason surfaces the error
\* and ends the session in IDLE, whereas after a cancellation by end of
\* stream the segments collected are analysed and persisted: the session does
\* not just fall back to IDLE, a stop pipeline is running for it.
C21_Original ==
    [][ /\ Canceled(TRUE) => (error' = RecognitionError /\ recordingState' = IDLE)
        /\ (Canceled(FALSE) /\ azureSegmentsRef # <<>>)
           => \/ recordingState' = ANALYZING
              \/ \E i \in 1..Len(tasks') : tasks'[i].pc \in StopPipelinePcs ]_vars

\* The annotations within the tolerance of the start of event k
WithinTolerance(k) ==
    { j \in 1..Len(geminiSegmentsRef) :
         Abs(geminiSegmentsRef[j].timestamp - azureSegmentsRef[k].start) < Tolerance }

\* C30 (as stated): while recording, a segment with annotations within the
\* tolerance of its event's start shows the emotion and sentiment of one that
\* is nearest to that start, whatever the order of arrival.
C30_Original ==
    ( /\ recordingState = RECORDING
      /\ combinedTranscriptRef = MergeSegments(azureSegmentsRef, geminiSegmentsRef) )
    => \A k \in 1..Len(azureSegmentsRef) :
          WithinTolerance(k) # {}
          => \E j \in WithinTolerance(k) :
                /\ \A m \in WithinTolerance(k) :
                      Abs(geminiSegmentsRef[j].timestamp - azureSegmentsRef[k].start)
                         <= Abs(geminiSegmentsRef[m].timestamp - azureSegmentsRef[k].start)
                /\ combinedTranscriptRef[k].emotion = geminiSegmentsRef[j].emotion
                /\ combinedTranscriptRef[k].sentiment = geminiSegmentsRef[j].sentiment

\* C22 (as stated): in file replay the progress stays within 0..100 and never
\* decreases from the moment an upload is accepted until the session ends:
\* on every step of the first upload of the hook that is under way and is
\* not ended by the step (the state is RECORDING before it, and RECORDING or
\* DONE after it).
C22_Original ==
    [][ (starts = 1 /\ recordingState = RECORDING /\ recordingState' \in {RECORDING, DONE})
        => (uploadProgress' \in 0..100 /\ uploadProgress' >= uploadProgress) ]_vars

\* C23 (as stated): every combined segment has end >= start >= 0, and the
\* segment sequence written to a record does not decrease in start.
C23_Original ==
    /\ \A k \in 1..Len(combinedTranscriptRef) :
          /\ combinedTranscriptRef[k].start >= 0
          /\ combinedTranscriptRef[k].end >= combinedTranscriptRef[k].start
    /\ \A r \in 1..Len(recordings) :
          \A k \in 1..(Len(recordings[r].transcriptSegments) - 1) :
             recordings[r].transcriptSegments[k].start
                <= recordings[r].transcriptSegments[k + 1].start

\* An annotation arrives: one call leaves the pending set and one entry
\* joins the annotations.
AnnotationArrives ==
    /\ \E call \in pending : pending' = pending \ {call}
    /\ Len(geminiSegmentsRef') = Len(geminiSegmentsRef) + 1

\* C24 (as stated): the feed never holds more than 5 strings and changes
\* only when an annotation arrives.
C24_Original ==
    /\ [](Len(realtimeFeedback) <= MaxFeedback)
    /\ [][realtimeFeedback' # realtimeFeedback => AnnotationArrives]_vars

\* C24 (amended): the feed never holds more than 5 strings; it changes only
\* when an annotation arrives, and then the new string is first, the strings
\* held before follow in their order and only the oldest one is dropped, or
\* when reset empties it; an annotation without feedback, a malformed answer
\* and a transcript event, each of which runs a merge, leave it as it is.
C24_FeedNewestFirst ==
    /\ [](Len(realtimeFeedback) <= MaxFeedback)
    /\ [][ /\ realtimeFeedback' # realtimeFeedback
              => \/ /\ realtimeFeedback' = <<>>
                    /\ recordingState' = IDLE /\ geminiSegmentsRef' = <<>>
                 \/ /\ AnnotationArrives
                    /\ Len(realtimeFeedback')
                         = Min(MaxFeedback, Len(realtimeFeedback) + 1)
                    /\ realtimeFeedback'[1] # ""
                    /\ \A k \in 2..Len(realtimeFeedback') :
                          realtimeFeedback'[k] = realtimeFeedback[k - 1]
           /\ \A call \in pending, outcome \in FeedOutcomes :
                 AnnotateParsed(call, outcome)
                    => IF outcome.feedback = ""
                       THEN realtimeFeedback' = realtimeFeedback
                       ELSE realtimeFeedback'[1] = outcome.feedback ]_vars

\* Six annotations with feedback have arrived in one session: the feed holds
\* the last five, the newest first.
C24_Witness ==
    /\ Len(geminiSegmentsRef) = MaxFeedback + 1
    /\ \A j \in 1..Len(geminiSegmentsRef) : geminiSegmentsRef[j].emotion # "neutral"
    /\ geminiSegmentsRef[MaxFeedback + 1].emotion = "nervousness"
    /\ geminiSegmentsRef[MaxFeedback].emotion = "joy"
    /\ Len(realtimeFeedback) = MaxFeedback
    /\ realtimeFeedback[1] = "Slow down"
    /\ realtimeFeedback[2] = "Ask an open question"

\* v is num / den rounded to an integer
IsRounded(v, num, den) == 2 * Abs(v * den - num) <= den

SpeakerSet(segs) == { segs[j].speaker : j \in 1..Len(segs) }

\* C25 (as stated): in every stored record whose transcript has exactly two
\* speakers the ratio is the pair of the two speakers' shares of the total
\* spoken time, each rounded to an integer percent, and with fewer or more
\* than two speakers it is the fallback 50:50; the ten alternating 5 s
\* segments give 50:50.
C25_Original ==
    \A r \in 1..Len(recordings) :
       LET segs == recordings[r].transcriptSegments
           ratio == recordings[r].recordingStats.talkToListenRatio
           total == SumSeq([j \in 1..Len(segs) |-> segs[j].end - segs[j].start])
       IN  /\ Cardinality(SpeakerSet(segs)) = 2
                => \E a, b \in SpeakerSet(segs) :
                      /\ a # b
                      /\ IsRounded(ratio[1], 100 * SpeakerTime(segs, a), total)
                      /\ IsRounded(ratio[2], 100 * SpeakerTime(segs, b), total)
           /\ Cardinality(SpeakerSet(segs)) # 2 => ratio = <<50, 50>>
           /\ segs = ScenarioTranscript => ratio = <<50, 50>>

\* The segments of a transcript that carry one of the three sentiments
Carrying(segs) ==
    { j \in 1..Len(segs) : segs[j].sentiment \in {"positive", "neutral", "negative"} }

\* The sum of the scores positive 80, neutral 60, negative 40 over them
ScoreSum(segs) ==
    80 * Cardinality({ j \in Carrying(segs) : segs[j].sentiment = "positive" })
    + 60 * Cardinality({ j \in Carrying(segs) : segs[j].sentiment = "neutral" })
    + 40 * Cardinality({ j \in Carrying(segs) : segs[j].sentiment = "negative" })

\* C26: in every stored record the average sentiment is the mean of the
\* scores positive 80, neutral 60, negative 40 over exactly the segments that
\* carry a sentiment, rounded to an integer, and 50 when no segment carries
\* one; the ten segments alternating positive and neutral give 70.
C26_AverageSentiment ==
    \A r \in 1..Len(recordings) :
       LET segs == recordings[r].transcriptSegments
           avg == recordings[r].recordingStats.sentimentScoreAvg
       IN  /\ Carrying(segs) # {}
                => IsRounded(avg, ScoreSum(segs), Cardinality(Carrying(segs)))
           /\ Carrying(segs) = {} => avg = 50
           /\ segs = ScenarioTranscript => avg = 70

\* The record of the ten segments alternating positive and neutral is
\* stored, with the average 70.
C26_Witness ==
    \E r \in 1..Len(recordings) :
       /\ recordings[r].transcriptSegments = ScenarioTranscript
       /\ Cardinality(Carrying(recordings[r].transcriptSegments)) = ScenarioSegs
       /\ recordings[r].recordingStats.sentimentScoreAvg = 70

\* Words per minute as a quotient: num / den, for words spoken in ticks
WpmNum(words) == words * 60 * TicksPerSecond

\* w1 words in d1 ticks are at most as many words per minute as w2 in d2
WpmAtMost(w1, d1, w2, d2) == WpmNum(w1) * d2 <= WpmNum(w2) * d1

\* Totals calculateMetrics could be given: words and a duration in ticks
Grid == (0..MaxGridWords) \X { n * TicksPerSecond : n \in 1..MaxGridSeconds }

\* The score of a record is within 20..95 for a positive rate and 50 for a
\* rate of zero, 20 up to 80 words per minute, 95 from 200 on, and between
\* them 20 + 75 * (wpm - 80) / 120 rounded
ScoreAsStated(e, words, ticks) ==
    /\ words > 0 => e \in MinEngagement..MaxEngagement
    /\ words = 0 => e = DefaultEngagement
    /\ (words > 0 /\ WpmNum(words) <= MinWpm * ticks) => e = MinEngagement
    /\ WpmNum(words) >= MaxWpm * ticks => e = MaxEngagement
    /\ (MinWpm * ticks <= WpmNum(words) /\ WpmNum(words) <= MaxWpm * ticks)
          => IsRounded(e, 20 * 120 * ticks + 75 * (WpmNum(words) - 80 * ticks), 120 * ticks)

\* C27 (as stated): the score of every stored record is as above, and no
\* totals with at least as many words per minute have a lower score.
C27_Original ==
    \A r \in 1..Len(recordings) :
       LET segs == recordings[r].transcriptSegments
           e == recordings[r].recordingStats.engagementPercentage
       IN  /\ ScoreAsStated(e, TotalWords(segs), TotalDuration(segs))
           /\ \A g \in Grid :
                 WpmAtMost(TotalWords(segs), TotalDuration(segs), g[1], g[2])
                    => Engagement(g[1], g[2]) >= e

\* C27 (amended): the score of every stored record is as above, and among
\* positive rates no totals with at least as many words per minute have a
\* lower score.
C27_EngagementOverPositiveRates ==
    \A r \in 1..Len(recordings) :
       LET segs == recordings[r].transcriptSegments
           e == recordings[r].recordingStats.engagementPercentage
       IN  /\ ScoreAsStated(e, TotalWords(segs), TotalDuration(segs))
           /\ \A g \in Grid :
                 ( /\ TotalWords(segs) > 0
                   /\ WpmAtMost(TotalWords(segs), TotalDuration(segs), g[1], g[2]) )
                    => Engagement(g[1], g[2]) >= e

\* A record is stored whose rate lies strictly between 80 and 200 words per
\* minute and whose score lies strictly between 20 and 95.
C27_Witness ==
    \E r \in 1..Len(recordings) :
       LET segs == recordings[r].transcriptSegments
           e == recordings[r].recordingStats.engagementPercentage
       IN  /\ MinWpm * TotalDuration(segs) < WpmNum(TotalWords(segs))
           /\ WpmNum(TotalWords(segs)) < MaxWpm * TotalDuration(segs)
           /\ MinEngagement < e /\ e < MaxEngagement

\* C28: the sentiment series of every stored record is not empty and its
\* first point is ("0:00", 50), whatever the transcript: empty, a single
\* segment, segments without sentiment.
C28_SeriesStartsAtFifty ==
    \A r \in 1..Len(recordings) :
       /\ Len(recordings[r].sentimentGraph) >= 1
       /\ recordings[r].sentimentGraph[1].time = <<0, 0>>
       /\ recordings[r].sentimentGraph[1].sentiment = 50

\* The record of a transcript of several segments none of which carries a
\* sentiment is stored: its series is the opening point alone.
C28_Witness ==
    \E r \in 1..Len(recordings) :
       /\ Len(recordings[r].transcriptSegments) > 1
       /\ \A j \in 1..Len(recordings[r].transcriptSegments) :
             recordings[r].transcriptSegments[j].sentiment = Undefined
       /\ Len(recordings[r].sentimentGraph) = 1

\* How often a token occurs in the texts of a transcript
Occurrences(segs, word) ==
    Cardinality({ i \in 1..Len(AllTokens(segs)) : AllTokens(segs)[i] = word })

\* The tokens of a transcript that pass the filter and occur at least twice
QualifyingTokens(segs) ==
    { AllTokens(segs)[i] : i \in { k \in 1..Len(AllTokens(segs)) :
          /\ Qualifies(AllTokens(segs)[k])
          /\ Occurrences(segs, AllTokens(segs)[k]) >= MinKeywordCount } }

\* C29 (as stated): the keyword map of every stored record whose transcript
\* was long enough to be analysed has at most 30 entries, one per token;
\* every entry is a token of the transcript that is no stop word, has two or
\* more characters, is not a number and occurs twice or more, with its exact
\* count; and a qualifying token is left out only when 30 entries of at least
\* its count are in.
C29_Original ==
    \A r \in 1..Len(recordings) :
       LET segs == recordings[r].transcriptSegments
           map == recordings[r].keywords
       IN  FullTranscriptLen(segs) >= MinTranscriptLen
           => /\ Len(map) <= MaxKeywords
              /\ \A k, l \in 1..Len(map) : map[k].word = map[l].word => k = l
              /\ \A k \in 1..Len(map) :
                    /\ map[k].word \notin StopWords
                    /\ TokenLen(map[k].word) >= MinKeywordLen
                    /\ ~IsNumeric(map[k].word)
                    /\ map[k].count >= MinKeywordCount
                    /\ map[k].count = Occurrences(segs, map[k].word)
              /\ \A word \in QualifyingTokens(segs) :
                    \/ \E k \in 1..Len(map) : map[k].word = word
                    \/ /\ Len(map) = MaxKeywords
                       /\ \A k \in 1..Len(map) :
                             map[k].count >= Occurrences(segs, word)

\* ================================================= the correction pass alone
\* The pass on every transcript of up to MaxSegs segments and every response
\* of up to MaxSplits splits of up to MaxParts parts.

\* The events of a stopped session: utterance u[j] lasting d[j] seconds, one
\* after the other
EventsOf(u, d) ==
    [j \in 1..Len(u) |->
        [speakerId |-> u[j].speakerId, text |-> u[j].text,
         start |-> SumSeq(SubSeq(d, 1, j - 1)) * TicksPerSecond,
         end |-> SumSeq(SubSeq(d, 1, j)) * TicksPerSecond]]

\* The session is ANALYZING, the grace delay is over and the correction call
\* is out.  Of the annotate calls only the first got an answer.
InitCorrect ==
    /\ recordingState = ANALYZING
    /\ realtimeFeedback = <<"Ask an open question">>
    /\ error = Null
    /\ sdk = "ready"
    /\ azureTranscriberRef = "stopped"
    /\ geminiModelRef = TRUE
    /\ mediaRecorderRef = "inactive"
    /\ audioChunksRef = 0
    /\ isManuallyStopping = TRUE
    /\ \E n \in 1..MaxSegs :
          \E u \in [1..n -> Utterances], d \in [1..n -> 1..2] :
             /\ azureSegmentsRef = EventsOf(u, d)
             /\ clock = SumSeq(d)
             /\ events = n
    /\ geminiSegmentsRef =
          <<[text |-> azureSegmentsRef[1].text, emotion |-> "joy",
             sentiment |-> "positive", timestamp |-> azureSegmentsRef[1].end]>>
    /\ combinedTranscriptRef = MergeSegments(azureSegmentsRef, geminiSegmentsRef)
    /\ transcript = DisplayText(combinedTranscriptRef)
    /\ pending = {}
    /\ tasks = <<Task(1, "correct", combinedTranscriptRef, "none", "", <<>>, <<>>, <<>>)>>
    /\ currentUser = TRUE
    /\ storedAudio = 0
    /\ recordings = <<>>
    /\ starts = 1
    /\ stops = 1
    /\ uploadProgress = 0
    /\ currentFile = Null
    /\ transcriptSegmentsRef = <<>>
    /\ speakerNamesRef = <<>>

\* The parts a split of k parts names
PartsOf(k) ==
    SubSeq(<<[speaker |-> "Salesperson", text |-> OfferText],
             [speaker |-> "Customer", text |-> QuestionText],
             [speaker |-> "Salesperson", text |-> ShortText],
             [speaker |-> "Customer", text |-> ShortText]>>, 1, k)

\* Every response over the segments: splits naming any index from 0 to one
\* past the end, with 0 to MaxParts parts, and at most one reassignment
AllResponses(segs) ==
    LET SplitEntries == { [originalIndex |-> x, segments |-> PartsOf(k)] :
                             x \in 0..Len(segs), k \in 0..MaxParts }
        SplitLists == UNION { [1..m -> SplitEntries] : m \in 0..MaxSplits }
    IN  { [corrections |-> c, splits |-> sp] :
             c \in {<<>>, <<[index |-> 0, correctedSpeaker |-> "Customer"]>>},
             sp \in SplitLists }

NextCorrect ==
    \/ \E i \in 1..Len(tasks) :
          \E response \in AllResponses(tasks[i].segs) : CorrectParsed(i, response)
    \/ \E i \in 1..Len(tasks), how \in {"api_error", "parse_error"} : CorrectFailed(i, how)

SpecCorrect == InitCorrect /\ [][NextCorrect]_vars

Span(seg) == seg.end - seg.start
TotalSpan(segs) == SumSeq([j \in 1..Len(segs) |-> Span(segs[j])])

\* The parts lie end to end from first to last
Contiguous(parts, first, last) ==
    /\ Len(parts) > 0
    /\ parts[1].start = first
    /\ parts[Len(parts)].end = last
    /\ \A j \in 1..(Len(parts) - 1) : parts[j].end = parts[j + 1].start

\* Every split names a segment of the transcript and at least one part
SplitsInRange(segs, splits) ==
    \A k \in 1..Len(splits) :
        /\ splits[k].originalIndex \in 0..(Len(segs) - 1)
        /\ Len(splits[k].segments) >= 1

SplitsDistinct(splits) ==
    \A k, l \in 1..Len(splits) :
        k # l => splits[k].originalIndex # splits[l].originalIndex

RECURSIVE ReplacedInPlace(_, _, _)
ReplacedInPlace(segs, splits, j) ==
    IF j > Len(segs) THEN <<>>
    ELSE LET hits == { k \in 1..Len(splits) : splits[k].originalIndex = j - 1 }
         IN  (IF hits = {} THEN <<segs[j]>>
              ELSE NewSegments(segs[j], splits[CHOOSE k \in hits : TRUE].segments))
             \o ReplacedInPlace(segs, splits, j + 1)

\* What of a segment neither a reassignment nor the fallback touches
Content(seg) ==
    [text |-> seg.text, emotion |-> seg.emotion, sentiment |-> seg.sentiment,
     start |-> seg.start, end |-> seg.end]

\* C6: splits naming distinct segments of the transcript replace each of them
\* in place by its k parts, in the order of the parts; the transcript grows by
\* k-1 per split, every other segment keeps its content and the order, and
\* the indices in the response are those of the transcript before any split.
C6_SplitsReplaceInPlace ==
    [][ \A i \in 1..Len(tasks) :
          \A response \in AllResponses(tasks[i].segs) :
             ( /\ SplitsInRange(tasks[i].segs, response.splits)
               /\ SplitsDistinct(response.splits)
               /\ CorrectParsed(i, response) )
             => LET segs == tasks[i].segs
                    expected == ReplacedInPlace(segs, response.splits, 1)
                IN  /\ ApplySplits(segs, response.splits) = expected
                    /\ Len(combinedTranscriptRef') =
                          Len(segs) + SumSeq([k \in 1..Len(response.splits) |->
                                                 Len(response.splits[k].segments) - 1])
                    /\ Len(combinedTranscriptRef') = Len(expected)
                    /\ \A j \in 1..Len(expected) :
                          Content(combinedTranscriptRef'[j]) = Content(expected[j]) ]_vars

\* The first two of three segments were split in two: their parts stand where
\* they stood and the third segment is now the fifth
C6_Witness ==
    /\ \E i \in 1..Len(tasks) : tasks[i].corr = "applied"
    /\ Len(azureSegmentsRef) = 3
    /\ Len(combinedTranscriptRef) = 5
    /\ \A j \in {1, 3} :
          /\ combinedTranscriptRef[j].text = OfferText
          /\ combinedTranscriptRef[j + 1].text = QuestionText
    /\ Content(combinedTranscriptRef[5]) =
          Content(MergeSegments(azureSegmentsRef, geminiSegmentsRef)[3])
    /\ combinedTranscriptRef[1].start = azureSegmentsRef[1].start
    /\ combinedTranscriptRef[3].start = azureSegmentsRef[2].start

\* ==================================================== annotations attached
\* C31 (as stated): the annotation recorded for an event has the start of the
\* event as its timestamp, so it lies within the tolerance of that start
\* whatever the utterance lasted, and the segment of the event is annotated
\* once its annotate call has resolved with a parsed answer.
C31_Original ==
    [][ \A call \in pending, outcome \in AnnotationOutcomes :
          (HasOwnSegment(call) /\ AnnotateParsed(call, outcome))
          => /\ call.timestamp = azureSegmentsRef[call.id].start
             /\ Abs(call.timestamp - azureSegmentsRef[call.id].start) < Tolerance
             /\ combinedTranscriptRef'[call.id].emotion # Undefined
             /\ combinedTranscriptRef'[call.id].sentiment # Undefined ]_vars

\* The parsed annotations within the tolerance of the start of event k
ParsedWithinTolerance(k) ==
    { j \in WithinTolerance(k) :
         /\ geminiSegmentsRef[j].emotion # Undefined
         /\ geminiSegmentsRef[j].sentiment # Undefined }

\* C39 (as stated): the placeholder of an answer that did not parse never
\* keeps a parsed annotation from attaching: after a merge, a segment with a
\* parsed annotation within the tolerance of its start has its emotion and
\* sentiment defined.
C39_Original ==
    combinedTranscriptRef = MergeSegments(azureSegmentsRef, geminiSegmentsRef)
    => \A k \in 1..Len(azureSegmentsRef) :
          ParsedWithinTolerance(k) # {}
          => /\ combinedTranscriptRef[k].emotion # Undefined
             /\ combinedTranscriptRef[k].sentiment # Undefined

\* ============================================= reassignments beside a split
\* The pass on every transcript of InitCorrect and every response of one
\* reassignment, of any segment to either role, with at most one split in
\* two of any segment.
ReassignResponses(segs) ==
    LET Indices == 0..(Len(segs) - 1)
    IN  { [corrections |-> <<[index |-> x, correctedSpeaker |-> r]>>, splits |-> sp] :
             x \in Indices, r \in Roles,
             sp \in {<<>>} \cup { <<[originalIndex |-> y, segments |-> PartsOf(MaxParts)]>> :
                                     y \in Indices } }

NextReassign ==
    \E i \in 1..Len(tasks) :
       \E response \in ReassignResponses(tasks[i].segs) : CorrectParsed(i, response)

SpecReassign == InitCorrect /\ [][NextReassign]_vars

\* C32 (as stated): a reassignment {index, newSpeaker} changes the speaker,
\* and only the speaker, of the segment that had that index in the transcript
\* before any split, and no other segment, also beside a split at a lower
\* index: the pass leaves what the splits and the residual mapping make of the
\* transcript with that one speaker replaced.
C32_Original ==
    [][ \A i \in 1..Len(tasks) :
          \A response \in ReassignResponses(tasks[i].segs) :
             ( /\ \A k \in 1..Len(response.splits) :
                     response.splits[k].originalIndex # response.corrections[1].index
               /\ CorrectParsed(i, response) )
             => LET segs == tasks[i].segs
                    c == response.corrections[1]
                    reassigned == [segs EXCEPT ![c.index + 1].speaker = c.correctedSpeaker]
                IN  combinedTranscriptRef' =
                       ApplyFallback(ReplacedInPlace(reassigned, response.splits, 1)) ]_vars

\* ======================================================= the parts of a split
\* The position, counted from 0, that the first part of a split takes in the
\* transcript the pass leaves: the index of the segment moved up by the parts
\* the splits at lower indices add
FirstPartAt(splits, split) ==
    split.originalIndex
      + SumSeq([l \in 1..Len(splits) |->
                   IF splits[l].originalIndex < split.originalIndex
                   THEN Len(splits[l].segments) - 1 ELSE 0])

\* C33: a split of segment i into k >= 1 parts leaves, where the segment
\* stood, k parts in the order of the response: part j covers the j-th of k
\* equal shares of the segment's span (so the first starts at the segment's
\* start, each ends where the next starts and the last ends at the segment's
\* end), has the text and the speaker the response states for it (the speaker
\* unless a reassignment of the same response names the part's position) and
\* the emotion and sentiment of the segment.
C33_SplitInEqualParts ==
    [][ \A i \in 1..Len(tasks) :
          \A response \in AllResponses(tasks[i].segs) :
             ( /\ SplitsInRange(tasks[i].segs, response.splits)
               /\ SplitsDistinct(response.splits)
               /\ CorrectParsed(i, response) )
             => \A k \in 1..Len(response.splits) :
                   LET split == response.splits[k]
                       orig == tasks[i].segs[split.originalIndex + 1]
                       m == Len(split.segments)
                       at == FirstPartAt(response.splits, split)
                   IN  \A j \in 1..m :
                          LET part == combinedTranscriptRef'[at + j]
                          IN  /\ m * (part.start - orig.start) = (j - 1) * Span(orig)
                              /\ m * (part.end - orig.start) = j * Span(orig)
                              /\ part.text = split.segments[j].text
                              /\ part.emotion = orig.emotion
                              /\ part.sentiment = orig.sentiment
                              /\ \/ part.speaker = split.segments[j].speaker
                                 \/ \E c \in 1..Len(response.corrections) :
                                       /\ response.corrections[c].index = at + j - 1
                                       /\ part.speaker =
                                             response.corrections[c].correctedSpeaker ]_vars

\* The only segment of a transcript, one second long and annotated, was
\* split in two: the salesperson's offer over the first half second, the
\* customer's question over the second, both with the segment's annotation
C33_Witness ==
    /\ \E i \in 1..Len(tasks) : tasks[i].corr = "applied"
    /\ Len(azureSegmentsRef) = 1
    /\ Span(azureSegmentsRef[1]) = TicksPerSecond
    /\ Len(combinedTranscriptRef) = 2
    /\ combinedTranscriptRef[1] =
          [speaker |-> "Salesperson", text |-> OfferText, emotion |-> "joy",
           sentiment |-> "positive", start |-> 0, end |-> TicksPerSecond \div 2]
    /\ combinedTranscriptRef[2] =
          [speaker |-> "Customer", text |-> QuestionText, emotion |-> "joy",
           sentiment |-> "positive", start |-> TicksPerSecond \div 2,
           end |-> TicksPerSecond]

\* ===================================================== the residual mapping
\* The pass on every transcript of up to MaxSegs one-second segments by two
\* provider labels, each saying a greeting, an offer or a question, and the
\* responses without a split: none or one reassignment of any segment to
\* either role.
RoleTranscripts ==
    UNION { { [j \in 1..n |->
                 [speaker |-> sp[j], text |-> tx[j],
                  emotion |-> Undefined, sentiment |-> Undefined,
                  start |-> (j - 1) * TicksPerSecond, end |-> j * TicksPerSecond]] :
              sp \in [1..n -> SpeakerIds],
              tx \in [1..n -> {ShortText, OfferText, QuestionText}] } :
            n \in 1..MaxSegs }

RoleResponses(segs) ==
    {NoResponse} \cup
    { [corrections |-> <<[index |-> x, correctedSpeaker |-> r]>>, splits |-> <<>>] :
         x \in 0..(Len(segs) - 1), r \in Roles }

NextRoles ==
    \E i \in 1..Len(tasks) :
       \E response \in RoleResponses(tasks[i].segs) : CorrectParsed(i, response)

SpecRoles == InitWith(RoleTranscripts) /\ [][NextRoles]_vars

\* The first segment of segs that carries the label
FirstCarrying(segs, label) ==
    FirstIndex({ l \in 1..Len(segs) : segs[l].speaker = label })

\* C34: after a pass that applied its response, every segment whose label
\* was not a role once the splits and reassignments were applied has a role:
\* Salesperson if the first utterance carrying that label holds one of the
\* cue phrases, Customer if not, hence the same role for all segments with
\* the same label; segments that had a role keep it, and nothing but the
\* speaker is changed.
C34_ResidualLabelsMapped ==
    [][ \A i \in 1..Len(tasks) :
          \A response \in RoleResponses(tasks[i].segs) :
             CorrectParsed(i, response)
             => LET pre == ApplyCorrections(
                              ApplySplits(tasks[i].segs, response.splits),
                              response.corrections)
                    post == combinedTranscriptRef'
                IN  /\ Len(post) = Len(pre)
                    /\ \A j \in 1..Len(pre) :
                          /\ Content(post[j]) = Content(pre[j])
                          /\ post[j].speaker \in Roles
                          /\ pre[j].speaker \in Roles => post[j].speaker = pre[j].speaker
                          /\ pre[j].speaker \notin Roles
                             => post[j].speaker =
                                   IF HasSalesCue(
                                         pre[FirstCarrying(pre, pre[j].speaker)].text)
                                   THEN "Salesperson" ELSE "Customer"
                    /\ \A j, l \in 1..Len(pre) :
                          pre[j].speaker = pre[l].speaker
                          => post[j].speaker = post[l].speaker ]_vars

\* Guest-1 made the offer and later greeted, Guest-2 made the same offer and
\* was reassigned to Customer by the response: both segments of Guest-1 are
\* the salesperson's and the reassigned segment is still the customer's
C34_Witness ==
    /\ \E i \in 1..Len(tasks) : tasks[i].corr = "applied"
    /\ Len(azureSegmentsRef) = 3
    /\ [j \in 1..3 |-> azureSegmentsRef[j].speakerId] = <<"Guest-1", "Guest-2", "Guest-1">>
    /\ [j \in 1..3 |-> azureSegmentsRef[j].text] = <<OfferText, OfferText, ShortText>>
    /\ Len(combinedTranscriptRef) = 3
    /\ [j \in 1..3 |-> combinedTranscriptRef[j].speaker]
          = <<"Salesperson", "Customer", "Salesperson">>

\* ========================================================== all or nothing
\* C38: when a split of the response throws, be it the first one applied or
\* one after others were applied, the pass returns the transcript it was
\* given as it was given: no split, no reassignment and no role mapping is in
\* it, and the buffers it was merged from are as they were.
C38_AllOrNothing ==
    [][ \A i \in 1..Len(tasks) :
          \A response \in AllResponses(tasks[i].segs) :
             ( /\ ThrowsOnSplits(tasks[i].segs, response.splits)
               /\ CorrectParsed(i, response) )
             => /\ combinedTranscriptRef' = tasks[i].segs
                /\ combinedTranscriptRef' = combinedTranscriptRef
                /\ transcript' = DisplayText(tasks[i].segs)
                /\ azureSegmentsRef' = azureSegmentsRef
                /\ geminiSegmentsRef' = geminiSegmentsRef ]_vars

\* A response with a split that threw was handled: the transcript of three
\* segments is the merge of the buffers, provider labels included
C38_Witness ==
    /\ \E i \in 1..Len(tasks) : tasks[i].corr = "threw"
    /\ Len(azureSegmentsRef) = MaxSegs
    /\ combinedTranscriptRef = MergeSegments(azureSegmentsRef, geminiSegmentsRef)
    /\ \A j \in 1..Len(combinedTranscriptRef) :
          combinedTranscriptRef[j].speaker \in SpeakerIds

\* ================================================= the points of the series
\* The series as stated: after the opening point, over the segments with a
\* sentiment, a point with the running average at every segment at which the
\* average differs by more than 10 from the point emitted last, and at every
\* second such segment; the first such segment is given its point in any
\* case, as the code gives it.
RECURSIVE SeriesAsStated(_, _, _, _, _)
SeriesAsStated(segs, j, points, cumulativeSentiment, segmentCount) ==
    IF j > Len(segs) THEN points
    ELSE IF segs[j].sentiment = Undefined
         THEN SeriesAsStated(segs, j + 1, points, cumulativeSentiment, segmentCount)
         ELSE LET score == IF segs[j].sentiment = "positive" THEN 80
                           ELSE IF segs[j].sentiment = "neutral" THEN 60 ELSE 40
                  cumulative == cumulativeSentiment + score
                  count == segmentCount + 1
                  currentAvg == RoundDiv(cumulative, count)
                  emit == \/ Len(points) = 1
                          \/ Abs(currentAvg - points[Len(points)].sentiment) > 10
                          \/ count % 2 = 0
              IN  SeriesAsStated(segs, j + 1,
                                 IF emit
                                 THEN Append(points, [time |-> FormatTime(segs[j].start),
                                                      sentiment |-> currentAvg])
                                 ELSE points,
                                 cumulative, count)

\* C35 (as stated): the sentiment series of every stored record is the
\* opening point followed by the points the stated rule emits for the
\* record's transcript.
C35_Original ==
    \A r \in 1..Len(recordings) :
       recordings[r].sentimentGraph =
          SeriesAsStated(recordings[r].transcriptSegments, 1, <<FirstPoint>>, 0, 0)

\* ============================================================== after reset
\* The hook as reset leaves it
AsResetLeavesIt ==
    /\ recordingState = IDLE
    /\ error = Null
    /\ transcript = <<>>
    /\ realtimeFeedback = <<>>
    /\ buffers = <<<<>>, <<>>, <<>>>>
    /\ audioChunksRef = 0
    /\ azureTranscriberRef = "null"
    /\ ~geminiModelRef
    /\ mediaRecorderRef # "recording"
    /\ ~isManuallyStopping

\* C37 (as stated): from the state reset leaves, and until a start, the hook
\* stays IDLE and its three segment buffers stay empty, whichever continuation
\* of the session before completes.
C37_Original ==
    [][ (AsResetLeavesIt /\ starts' = starts)
        => (recordingState' = IDLE /\ buffers' = <<<<>>, <<>>, <<>>>>) ]_vars

\* ====================================================== the speaker registry
\* The labels of the segments follow the letters in the order in which the
\* speakers first appear
LabelsInOrder(segs) ==
    \A j \in 1..Len(segs) :
       LET before == { segs[k].speakerId : k \in 1..(j - 1) }
       IN  \/ segs[j].speakerId \in before
           \/ segs[j].speakerId = SpeakerLetter(Cardinality(before))

\* A step of the file hook's reset: the only step that leaves the hook IDLE
\* without an error and with every suspended pipeline where it was
FileResetStep ==
    /\ recordingState' = IDLE
    /\ error' = Null
    /\ uploadProgress' = 0
    /\ transcriptSegmentsRef' = <<>>
    /\ azureSegmentsRef' = <<>>
    /\ tasks' = tasks
    /\ starts' = starts

\* C36 (as stated): the registry holds every raw id once (so that distinct
\* ids have distinct labels and an id keeps its label), it only grows except
\* where it is emptied, it is empty after every accepted upload and every
\* reset, and in the transcription of the session under way it holds the ids
\* of that session's speakers and no other: the labels of the session's
\* segments are Speaker A, Speaker B, ... in the order of first appearance.
C36_Original ==
    /\ [](\A k, l \in 1..Len(speakerNamesRef) :
             k # l => speakerNamesRef[k] # speakerNamesRef[l])
    /\ [][ \/ speakerNamesRef' = <<>>
           \/ /\ Len(speakerNamesRef') >= Len(speakerNamesRef)
              /\ SubSeq(speakerNamesRef', 1, Len(speakerNamesRef)) = speakerNamesRef ]_vars
    /\ [][ (starts' = starts + 1 \/ FileResetStep) => speakerNamesRef' = <<>> ]_vars
    /\ [](\A i \in 1..Len(tasks) :
             ( /\ recordingState = RECORDING
               /\ tasks[i].session = starts
               /\ tasks[i].pc = "stream" )
             => /\ LabelsInOrder(tasks[i].segs)
                /\ Len(speakerNamesRef) =
                      Cardinality({ tasks[i].segs[k].speakerId :
                                       k \in 1..Len(tasks[i].segs) }))

\* ================================================ processAudioWithAzure alone
\* The promise of processAudioWithAzure from the await of
\* startTranscribingAsync on, with its flag isCompleted, while
\* uploadAndAnalyzeFile awaits it.  SpecFile takes the first completing signal
\* and the continuation of uploadAndAnalyzeFile as one step and drops the
\* transcriber there; here the transcriber goes on signalling after the
\* promise is settled, up to MaxTranscriberSignals session-stopped and
\* canceled signals in all, and a write to the push stream can throw.
MaxTranscriberSignals == 3

\* The closure of one call: where its streaming stands (awaiting the start, a
\* sendChunk timer set, or nothing left to run), the chunks written, the
\* segments array, isCompleted, how often transcriber.close and
\* pushStream.close were called, the calls of resolve and reject made, and
\* the completing signals the transcriber has raised
Transcription(file) ==
    [session |-> 1, pc |-> "azureStart", file |-> file, sent |-> 0, segs |-> <<>>,
     isCompleted |-> FALSE, closed |-> 0, streamClosed |-> 0, settled |-> <<>>,
     signals |-> 0]

\* complete(result) without the test of isCompleted (a faulty variant, used
\* for C40)
CompleteMutNoGuard(t, result) ==
    [t EXCEPT !.isCompleted = TRUE, !.closed = @ + 1, !.settled = Append(@, result)]

\* complete(result): the transcriber exists from before the start is awaited
Complete(t, result) ==
    IF t.isCompleted THEN t
    ELSE [t EXCEPT !.isCompleted = TRUE, !.closed = @ + 1,
                   !.settled = Append(@, result)]

Resolved(signal) == [call |-> "resolve", value |-> "segments", signal |-> signal]
Rejected(signal) == [call |-> "reject", value |-> "error", signal |-> signal]

\* sendChunk when pushStream.write does not throw
SendChunkOf(t) ==
    IF t.sent >= t.file.chunks \/ t.isCompleted
    THEN [t EXCEPT !.pc = "done", !.streamClosed = @ + 1]
    ELSE IF t.sent + 1 < t.file.chunks
         THEN [t EXCEPT !.pc = "stream", !.sent = @ + 1]
         ELSE [t EXCEPT !.pc = "done", !.sent = @ + 1, !.streamClosed = @ + 1]

\* The progress sendChunk leaves
ProgressOf(t, before) ==
    IF t.sent >= t.file.chunks \/ t.isCompleted THEN before
    ELSE ChunkProgress(t.sent + 1, t.file.chunks)

\* uploadAndAnalyzeFile has accepted an audio file and awaits
\* processAudioWithAzure, which has converted the file, created the
\* transcriber, attached its handlers and awaits startTranscribingAsync
InitSettle ==
    /\ recordingState = RECORDING
    /\ transcript = <<>>
    /\ realtimeFeedback = <<>>
    /\ error = Null
    /\ sdk = "ready"
    /\ azureTranscriberRef = "null"
    /\ geminiModelRef = FALSE
    /\ mediaRecorderRef = "null"
    /\ audioChunksRef = 0
    /\ isManuallyStopping = FALSE
    /\ geminiSegmentsRef = <<>>
    /\ azureSegmentsRef = <<>>
    /\ combinedTranscriptRef = <<>>
    /\ clock = 0
    /\ pending = {}
    /\ currentFile \in { file \in Files : file.kind = "audio" }
    /\ tasks = <<Transcription(currentFile)>>
    /\ currentUser = TRUE
    /\ storedAudio = 0
    /\ recordings = <<>>
    /\ starts = 1
    /\ stops = 0
    /\ events = 0
    /\ uploadProgress = 30
    /\ transcriptSegmentsRef = <<>>
    /\ speakerNamesRef = <<>>

\* startTranscribingAsync resolves: progress 40, then the first sendChunk
TranscriberStarted(i) ==
    /\ AtPc(i, "azureStart")
    /\ uploadProgress' = ProgressOf(tasks[i], 40)
    /\ tasks' = [tasks EXCEPT ![i] = SendChunkOf(@)]
    /\ UNCHANGED <<recordingState, error, sdk, azureSegmentsRef, currentUser,
                   store, starts, events, currentFile, transcriptSegmentsRef,
                   speakerNamesRef, liveHook>>

\* startTranscribingAsync rejects: the catch of the setup
TranscriberStartRejected(i) ==
    /\ AtPc(i, "azureStart")
    /\ tasks' = [tasks EXCEPT ![i] = Complete([@ EXCEPT !.pc = "done"], Rejected("setup"))]
    /\ UNCHANGED <<recordingState, error, sdk, azureSegmentsRef, currentUser,
                   store, starts, events, uploadProgress, currentFile,
                   transcriptSegmentsRef, speakerNamesRef, liveHook>>

\* setTimeout(sendChunk, 0) fires
ChunkTimer(i) ==
    /\ AtPc(i, "stream")
    /\ uploadProgress' = ProgressOf(tasks[i], uploadProgress)
    /\ tasks' = [tasks EXCEPT ![i] = SendChunkOf(@)]
    /\ UNCHANGED <<recordingState, error, sdk, azureSegmentsRef, currentUser,
                   store, starts, events, currentFile, transcriptSegmentsRef,
                   speakerNamesRef, liveHook>>

\* sendChunk, first or from its timer, reaches pushStream.write and the write
\* throws: the catch of sendChunk
ChunkWriteThrows(i) ==
    /\ AtPc(i, "azureStart") \/ AtPc(i, "stream")
    /\ tasks[i].sent < tasks[i].file.chunks
    /\ ~tasks[i].isCompleted
    /\ uploadProgress' = IF tasks[i].pc = "azureStart" THEN 40 ELSE uploadProgress
    /\ tasks' = [tasks EXCEPT ![i] = Complete([@ EXCEPT !.pc = "done"], Rejected("chunk"))]
    /\ UNCHANGED <<recordingState, error, sdk, azureSegmentsRef, currentUser,
                   store, starts, events, currentFile, transcriptSegmentsRef,
                   speakerNamesRef, liveHook>>

\* transcriber.sessionStopped
TranscriberSessionStopped(i) ==
    /\ i \in 1..Len(tasks)
    /\ tasks[i].signals < MaxTranscriberSignals
    /\ tasks' = [tasks EXCEPT ![i] =
                    Complete([@ EXCEPT !.signals = @ + 1], Resolved("sessionStopped"))]
    /\ UNCHANGED <<recordingState, error, sdk, azureSegmentsRef, currentUser,
                   store, starts, events, uploadProgress, currentFile,
                   transcriptSegmentsRef, speakerNamesRef, liveHook>>

\* transcriber.canceled: reason Error rejects, any other reason resolves
TranscriberCanceled(i, withError) ==
    /\ i \in 1..Len(tasks)
    /\ tasks[i].signals < MaxTranscriberSignals
    /\ tasks' = [tasks EXCEPT ![i] =
                    Complete([@ EXCEPT !.signals = @ + 1],
                             IF withError THEN Rejected("canceled")
                             ELSE Resolved("canceled"))]
    /\ UNCHANGED <<recordingState, error, sdk, azureSegmentsRef, currentUser,
                   store, starts, events, uploadProgress, currentFile,
                   transcriptSegmentsRef, speakerNamesRef, liveHook>>

\* transcriber.transcribed, which does not look at isCompleted
TranscriberTranscribed(i, speakerId, text) ==
    /\ i \in 1..Len(tasks)
    /\ events' = events + 1
    /\ LET offset == Len(tasks[i].segs) * TicksPerSecond
           segment == [speakerId |-> GetSpeakerName(speakerNamesRef, speakerId),
                       text |-> text,
                       start |-> offset,
                       end |-> offset + TicksPerSecond]
       IN  tasks' = [tasks EXCEPT ![i].segs = Append(@, segment)]
    /\ speakerNamesRef' =
          IF \E k \in 1..Len(speakerNamesRef) : speakerNamesRef[k] = speakerId
          THEN speakerNamesRef
          ELSE Append(speakerNamesRef, speakerId)
    /\ UNCHANGED <<recordingState, error, sdk, azureSegmentsRef, currentUser,
                   store, starts, uploadProgress, currentFile,
                   transcriptSegmentsRef, liveHook>>

NextSettle ==
    \/ \E i \in 1..Len(tasks) : TranscriberStarted(i)
    \/ \E i \in 1..Len(tasks) : TranscriberStartRejected(i)
    \/ \E i \in 1..Len(tasks) : ChunkTimer(i)
    \/ \E i \in 1..Len(tasks) : ChunkWriteThrows(i)
    \/ \E i \in 1..Len(tasks) : TranscriberSessionStopped(i)
    \/ \E i \in 1..Len(tasks), withError \in BOOLEAN : TranscriberCanceled(i, withError)
    \/ /\ events < MaxFileEvents
       /\ \E i \in 1..Len(tasks), u \in Utterances :
             TranscriberTranscribed(i, u.speakerId, u.text)

SpecSettle == InitSettle /\ [][NextSettle]_vars

\* A step in which task i handles a signal that completes: session-stopped,
\* canceled, a write that throws, or the start rejected
CompletingSignal(i) ==
    \/ TranscriberSessionStopped(i)
    \/ \E withError \in BOOLEAN : TranscriberCanceled(i, withError)
    \/ ChunkWriteThrows(i)
    \/ TranscriberStartRejected(i)

\* C40: the promise of a file's transcription is settled at most once and the
\* transcriber closed at most once, both at the first completing signal
\* handled (session-stopped, canceled, a chunk write that throws, the start
\* rejected), whose kind decides between the segments and an error; once
\* completed, no signal settles or closes again and no chunk is written.
C40_SettlesOnce ==
    /\ [](\A i \in 1..Len(tasks) :
             /\ Len(tasks[i].settled) <= 1
             /\ tasks[i].closed <= 1
             /\ tasks[i].isCompleted <=> Len(tasks[i].settled) = 1
             /\ tasks[i].isCompleted <=> tasks[i].closed = 1)
    /\ [][ \A i \in 1..Len(tasks) :
             /\ (~tasks[i].isCompleted /\ CompletingSignal(i))
                => /\ tasks'[i].isCompleted
                   /\ Len(tasks'[i].settled) = 1
                   /\ TranscriberSessionStopped(i)
                      => tasks'[i].settled[1] = Resolved("sessionStopped")
                   /\ TranscriberCanceled(i, FALSE)
                      => tasks'[i].settled[1] = Resolved("canceled")
                   /\ TranscriberCanceled(i, TRUE)
                      => tasks'[i].settled[1] = Rejected("canceled")
                   /\ ChunkWriteThrows(i) => tasks'[i].settled[1] = Rejected("chunk")
                   /\ TranscriberStartRejected(i)
                      => tasks'[i].settled[1] = Rejected("setup")
             /\ tasks[i].isCompleted
                => /\ tasks'[i].isCompleted
                   /\ tasks'[i].settled = tasks[i].settled
                   /\ tasks'[i].closed = tasks[i].closed
                   /\ tasks'[i].sent = tasks[i].sent ]_vars

\* The transcription of a file of two chunks was completed by a canceled
\* signal with an error after the first chunk; a session-stopped signal and
\* the chunk timer came afterwards: the promise is rejected, once, the
\* transcriber closed once, the stream closed and the second chunk not written
C40_Witness ==
    \E i \in 1..Len(tasks) :
       /\ tasks[i].file.chunks = 2
       /\ tasks[i].settled = <<Rejected("canceled")>>
       /\ tasks[i].signals >= 2
       /\ tasks[i].closed = 1
       /\ tasks[i].pc = "done"
       /\ tasks[i].streamClosed = 1
       /\ tasks[i].sent = 1

====
